---- MODULE Spec2Model ----
(***************************************************************************)
(* A model of lexor's Converter (lexor/core/converter.py): the directive   *)
(* matcher, the compile walk, the link walk, the final rewrite walk and    *)
(* convert() itself, over an arena of document nodes.                      *)
(*                                                                         *)
(* The node classes (lexor.core.elements) and the parser are collaborators *)
(* of the converter; their operations (clone_node, append_child,           *)
(* extend_children, normalize, next, the parse of a template) are modelled *)
(* from their documented contract.                                         *)
(***************************************************************************)
EXTENDS Integers, Sequences, FiniteSets, TLC

\* ------------------------------------------------------------------ bounds
\* Largest number of nodes below the root of an input document.
MaxNodes == 2
\* Number of convert() calls made on one Converter.
MaxCalls == 2
\* Largest number of attributes of the node handed to the matcher.
MaxAttrs == 2
\* Priorities of directives are drawn from 0..MaxPriority.
MaxPriority == 1

\* Python's None, for a reference to a node.
None == 0

\* ------------------------------------------------------------ node model
\* A node of the arena.  src is a history field: the node this one was
\* cloned from (None for a node that is no clone).
Node(kind, name, attrs, data) ==
    [kind |-> kind, name |-> name, attrs |-> attrs, data |-> data,
     parent |-> None, child |-> <<>>, lang |-> "", style |-> "",
     ann |-> FALSE, directives |-> <<>>, info |-> [remove |-> <<>>],
     t_node |-> <<>>, src |-> None]

\* isinstance(node, LC.Element)
IsElement(node) == node.kind = "Element"

IsText(node) == node.kind = "Text"

\* Truth value of a node reference: None and a node without children are false.
Falsy(ns, n) == n = None \/ ns[n].child = <<>>

\* node.index
IndexOf(seq, x) == CHOOSE i \in 1..Len(seq) : seq[i] = x

\* node.next
NextSibling(ns, n) ==
    LET p == ns[n].parent IN
    IF p = None THEN None
    ELSE LET i == IndexOf(ns[p].child, n) IN
         IF i < Len(ns[p].child) THEN ns[p].child[i + 1] ELSE None

\* Taking a node out of its parent clears its parent reference.
Detach(ns, c) ==
    IF ns[c].parent = None THEN ns
    ELSE [ns EXCEPT ![ns[c].parent].child = SelectSeq(@, LAMBDA y : y # c),
                    ![c].parent = None]

\* parent.append_child(c): moving a node removes it from its old parent.
AppendChild(ns, p, c) ==
    LET a == Detach(ns, c) IN
    [a EXCEPT ![p].child = Append(@, c), ![c].parent = p]

\* parent.extend_children(src): moves every child of src, in order; None adds nothing.
RECURSIVE ExtendChildren(_, _, _)
ExtendChildren(ns, p, src) ==
    IF Falsy(ns, src) THEN ns
    ELSE ExtendChildren(AppendChild(ns, p, Head(ns[src].child)), p, src)

\* node.clone_node(): a shallow copy without parent, children or annotations.
\* The clone is the node Len(ns) + 1 of the result.
CloneNode(ns, n) ==
    Append(ns, [Node(ns[n].kind, ns[n].name, ns[n].attrs, ns[n].data)
                  EXCEPT !.lang = ns[n].lang, !.style = ns[n].style, !.src = n])

\* node.clone_node(True): a deep copy.
RECURSIVE DeepClone(_, _)
RECURSIVE DeepCloneKids(_, _, _)
DeepCloneKids(ns, kids, newparent) ==
    IF kids = <<>> THEN ns
    ELSE LET r == DeepClone(ns, Head(kids)) IN
         DeepCloneKids(AppendChild(r.ns, newparent, r.id), Tail(kids), newparent)

DeepClone(ns, n) ==
    LET id == Len(ns) + 1 IN
    [ns |-> DeepCloneKids(CloneNode(ns, n), ns[n].child, id), id |-> id]

\* normalize(), first half: adjacent Text siblings are joined into the first.
RECURSIVE MergeText(_, _, _)
MergeText(ns, kids, out) ==
    IF kids = <<>> THEN [ns |-> ns, out |-> out]
    ELSE LET k == Head(kids) IN
         IF out # <<>> /\ IsText(ns[out[Len(out)]]) /\ IsText(ns[k])
         THEN MergeText([ns EXCEPT ![out[Len(out)]].data = @ \o ns[k].data,
                                   ![k].parent = None],
                        Tail(kids), out)
         ELSE MergeText(ns, Tail(kids), Append(out, k))

EmptyText(node) == IsText(node) /\ node.data = <<>>

\* normalize(): no adjacent Text siblings remain, and an empty Text node is
\* removed unless it is the only child.
Normalize(ns, p) ==
    LET m == MergeText(ns, ns[p].child, <<>>)
        keep == IF Len(m.out) > 1
                THEN SelectSeq(m.out, LAMBDA k : ~EmptyText(m.ns[k]))
                ELSE m.out
    IN [i \in 1..Len(m.ns) |->
          IF i = p THEN [m.ns[i] EXCEPT !.child = keep]
          ELSE IF m.ns[i].parent = p /\ EmptyText(m.ns[i]) /\ Len(m.out) > 1
               THEN [m.ns[i] EXCEPT !.parent = None]
               ELSE m.ns[i]]

\* ------------------------------------------------------- directive registry
\* A NodeConverter class as a style module declares it.  logs is the behaviour
\* of its pre_link hook: whether the hook sends a message to the converter.
DirectiveClass(cls, directive, restrict, priority, template, remove, transclude, copy, copy_children, logs) ==
    [cls |-> cls, directive |-> directive, restrict |-> restrict,
     priority |-> priority, template |-> template, remove |-> remove,
     transclude |-> transclude, copy |-> copy, copy_children |-> copy_children,
     logs |-> logs]

\* nc_class(self): the instance, with its class attribute _t_element = None.
\* parses is a history field: how often the template of the instance was parsed.
Instance(class) ==
    [cls |-> class.cls, directive |-> class.directive, restrict |-> class.restrict,
     priority |-> class.priority, template |-> class.template,
     remove |-> class.remove, transclude |-> class.transclude,
     copy |-> class.copy, copy_children |-> class.copy_children,
     logs |-> class.logs, t_element |-> None, parses |-> 0]

\* Register testing the class name only: a directive name is taken over.
Register_Mut(r, class, override) ==
    LET id == Len(r.inst) + 1
        inst1 == Append(r.inst, Instance(class))
    IN IF class.directive = "" THEN [r EXCEPT !.err = "LexorError"]
       ELSE IF ~override /\ class.cls \in DOMAIN r.node_converter
       THEN [r EXCEPT !.inst = inst1, !.err = "LexorError"]
       ELSE [inst |-> inst1,
             node_converter |-> (class.cls :> id) @@ r.node_converter,
             nc |-> (class.directive :> id) @@ r.nc,
             err |-> ""]

\* Converter.register: r.err is the LexorError raised, "" when none.
Register(r, class, override) ==
    LET id == Len(r.inst) + 1
        inst1 == Append(r.inst, Instance(class))
    IN IF class.directive = "" THEN [r EXCEPT !.err = "LexorError"]
       ELSE IF ~override /\ (class.cls \in DOMAIN r.node_converter
                             \/ class.directive \in DOMAIN r.nc)
       THEN [r EXCEPT !.inst = inst1, !.err = "LexorError"]
       ELSE [inst |-> inst1,
             node_converter |-> (class.cls :> id) @@ r.node_converter,
             nc |-> (class.directive :> id) @@ r.nc,
             err |-> ""]

\* Converter._set_node_converters: both maps are emptied and every class of
\* REPOSITORY is registered, up to the first one that is rejected.
RECURSIVE RegisterAll(_, _)
RegisterAll(r, classes) ==
    IF classes = <<>> \/ r.err # "" THEN r
    ELSE RegisterAll(Register(r, Head(classes), FALSE), Tail(classes))

SetNodeConverters(insts, repository) ==
    RegisterAll([inst |-> insts, node_converter |-> <<>>, nc |-> <<>>, err |-> ""],
                repository)

\* ------------------------------------------------------- directive matcher
\* list.insert(index, x), index counted from 0
InsertAt(seq, index, x) ==
    SubSeq(seq, 1, index) \o <<x>> \o SubSeq(seq, index + 1, Len(seq))

\* ScanIndex with >= for >: an attribute match passes matches of its own priority.
RECURSIVE ScanIndex_Mut(_, _, _)
ScanIndex_Mut(directives, priority, index) ==
    IF index > 0 /\ priority >= directives[index][2]
    THEN ScanIndex_Mut(directives, priority, index - 1)
    ELSE index

\* The while loop of get_node_directives: the place of an attribute match.
RECURSIVE ScanIndex(_, _, _)
ScanIndex(directives, priority, index) ==
    IF index > 0 /\ priority > directives[index][2]
    THEN ScanIndex(directives, priority, index - 1)
    ELSE index

\* AttributeApplies without the test of restrict.
AttributeApplies_Mut(inst, nc, att) == att \in DOMAIN nc

\* The two tests of the for loop: the attribute names a registered directive
\* whose restrict contains 'A'.
AttributeApplies(inst, nc, att) ==
    IF att \in DOMAIN nc THEN "A" \in inst[nc[att]].restrict ELSE FALSE

\* The for loop of get_node_directives over node.attributes.
RECURSIVE AttrLoop(_, _, _, _)
AttrLoop(inst, nc, atts, acc) ==
    IF atts = <<>> THEN acc
    ELSE LET att == Head(atts)[1] IN
         IF ~AttributeApplies(inst, nc, att)
         THEN AttrLoop(inst, nc, Tail(atts), acc)
         ELSE LET node_c == inst[nc[att]]
                  rem == IF node_c.remove THEN Append(acc.info.remove, att)
                         ELSE acc.info.remove
                  index == ScanIndex(acc.directives, node_c.priority,
                                     Len(acc.directives))
              IN AttrLoop(inst, nc, Tail(atts),
                          [directives |-> InsertAt(acc.directives, index,
                                                   <<att, node_c.priority>>),
                           info |-> [remove |-> rem]])

\* Converter.get_node_directives
GetNodeDirectives(inst, nc, node) ==
    LET name == node.name
        byname == name \in DOMAIN nc /\ "E" \in inst[nc[name]].restrict
        first == [directives |-> IF byname
                                 THEN << <<name, inst[nc[name]].priority>> >>
                                 ELSE <<>>,
                  info |-> [remove |-> IF byname /\ inst[nc[name]].remove
                                       THEN <<name>> ELSE <<>>]]
    IN IF ~IsElement(node) THEN first
       ELSE AttrLoop(inst, nc, node.attrs, first)

\* ------------------------------------------------------------ collaborators
\* The document a parser builds from a sequence of trees [node, kids].
RECURSIVE BuildKids(_, _, _)
BuildKids(ns, parent, trees) ==
    IF trees = <<>> THEN ns
    ELSE LET id == Len(ns) + 1
             sub == BuildKids(Append(ns, Head(trees).node), id, Head(trees).kids)
         IN BuildKids(AppendChild(sub, parent, id), parent, Tail(trees))

Parse(ns, trees) ==
    LET id == Len(ns) + 1
        document == [Node("Document", "#document", <<>>, <<>>)
                       EXCEPT !.lang = "xml", !.style = "default"]
    IN [ns |-> BuildKids(Append(ns, document), id, trees), id |-> id]

\* What the parser makes of the template texts the style modules use:
\* "T" is <w><c/></w>, "U" is <u/><v/>.
TemplateAST(template) ==
    IF template = "T"
    THEN << [node |-> Node("Element", "w", <<>>, <<>>),
             kids |-> << [node |-> Node("Element", "c", <<>>, <<>>),
                          kids |-> <<>>] >>] >>
    ELSE << [node |-> Node("Element", "u", <<>>, <<>>), kids |-> <<>>],
            [node |-> Node("Element", "v", <<>>, <<>>), kids |-> <<>>] >>

\* A call of a hook of a directive, appended to the history of calls.
Hook(st, hook, directive, n) ==
    [st EXCEPT !.calls = Append(@, [hook |-> hook, directive |-> directive,
                                    node |-> n])]

HasAttr(node, att) == \E i \in 1..Len(node.attrs) : node.attrs[i][1] = att

AttrValue(node, att) ==
    node.attrs[CHOOSE i \in 1..Len(node.attrs) : node.attrs[i][1] = att][2]

\* Msg that names the module in the log and appends no message.
Msg_Mut(st, mod_name, code, n, arg, uri) ==
    [st EXCEPT !.log[Len(st.log)].modules = @ \cup {mod_name}]

\* Converter.msg with a uri given by the caller: the message goes to the top log.
Msg(st, mod_name, code, n, arg, uri) ==
    LET taken == n # None /\ HasAttr(st.ns[n], "uri")
        wnode == [module |-> mod_name, code |-> code, node_id |-> n,
                  uri |-> IF taken THEN AttrValue(st.ns[n], "uri") ELSE uri,
                  arg |-> arg]
        ns1 == IF taken
               THEN [st.ns EXCEPT ![n].attrs = SelectSeq(@, LAMBDA a : a[1] # "uri")]
               ELSE st.ns
        top == Len(st.log)
    IN [st EXCEPT !.ns = ns1,
                  !.log[top].modules = @ \cup {mod_name},
                  !.log[top].msgs = Append(@, wnode)]

\* Converter.msg without a uri: the uri is self.doc[-1].uri_, the uri of the
\* document on top of the doc stack.
MsgNoUri(st, mod_name, code, n, arg) ==
    IF st.doc = <<>> THEN [st EXCEPT !.err = "IndexError"]
    ELSE Msg(st, mod_name, code, n, arg, <<"uri", st.doc[Len(st.doc)]>>)

\* ---------------------------------------------------------- node converters
\* Converter._copy
Copy(ns, inst, nc, n) ==
    IF ns[n].name \in DOMAIN nc THEN inst[nc[ns[n].name]].copy ELSE TRUE

\* Converter._copy_children
CopyChildren(ns, inst, nc, n) ==
    (IF ns[n].name \in DOMAIN nc THEN inst[nc[ns[n].name]].copy_children ELSE TRUE)
    /\ ns[n].child # <<>>

\* Converter._get_direction
GetDirection(ns, inst, nc, crt) ==
    IF ns[crt].child # <<>> /\ CopyChildren(ns, inst, nc, crt) THEN "d" ELSE "r"

\* Converter._get_link_direction
GetLinkDirection(ns, crt) == IF ns[crt].child # <<>> THEN "d" ELSE "r"

\* Converter._start: the default start hook returns the node.
Start(st, nc, n) ==
    IF st.ns[n].name \in DOMAIN nc THEN Hook(st, "start", st.ns[n].name, n) ELSE st

\* Converter._end: the default end hook returns the node.
End(st, nc, n) ==
    IF st.ns[n].name \in DOMAIN nc THEN Hook(st, "end", st.ns[n].name, n) ELSE st

\* The loop of _compile_node over the matched directives: the template of each
\* is parsed or cloned, handed to the compile hook and stored on crtcopy.
RECURSIVE CompileDirectives(_, _, _, _)
CompileDirectives(st, nc, directives, crtcopy) ==
    IF directives = <<>> \/ st.err # "" THEN st
    ELSE LET directive == Head(directives)[1]
             id == nc[directive]
             node_c == st.inst[id]
             fresh == Falsy(st.ns, node_c.t_element)
             parsed == Parse(st.ns, TemplateAST(node_c.template))
             cloned == DeepClone(st.ns, node_c.t_element)
             tdoc == IF fresh
                     THEN (IF node_c.template # "" THEN parsed.id ELSE None)
                     ELSE cloned.id
             ns1 == IF fresh
                    THEN (IF node_c.template # "" THEN parsed.ns ELSE st.ns)
                    ELSE cloned.ns
             inst1 == IF fresh /\ node_c.template # ""
                      THEN [st.inst EXCEPT ![id].t_element = parsed.id,
                                           ![id].parses = @ + 1]
                      ELSE st.inst
             st1 == Hook([st EXCEPT !.ns = ns1, !.inst = inst1],
                         "compile", directive, tdoc)
         IN IF ~st1.ns[crtcopy].ann
            THEN [st1 EXCEPT !.err = "AttributeError"]
            ELSE CompileDirectives(
                     [st1 EXCEPT !.ns[crtcopy].t_node = (directive :> tdoc) @@ @],
                     nc, Tail(directives), crtcopy)

\* CompileTarget taken in the input tree: the node the current copy was
\* cloned from, or its parent.
CompileTarget_Mut(ns, crtcopy, down) ==
    IF down THEN ns[crtcopy].src ELSE ns[ns[crtcopy].src].parent

\* The node _compile_node appends the clone to.
CompileTarget(ns, crtcopy, down) == IF down THEN crtcopy ELSE ns[crtcopy].parent

\* Converter._compile_node
CompileNode(st, nc, crt, crtcopy, down) ==
    LET m == GetNodeDirectives(st.inst, nc, st.ns[crt])
        removed == m.info.remove # <<>>
        target == CompileTarget(st.ns, crtcopy, down)
        clone == Len(st.ns) + 1
        ns0 == CloneNode(st.ns, crt)
    IN IF ~removed /\ target = None
       THEN [st |-> [st EXCEPT !.ns = ns0, !.err = "AttributeError"],
             crtcopy |-> crtcopy, direction |-> "r"]
       ELSE LET ns1 == IF removed THEN st.ns ELSE AppendChild(ns0, target, clone)
                cc == IF removed THEN crtcopy ELSE clone
                dir == IF removed THEN "r"
                       ELSE GetDirection(st.ns, st.inst, nc, crt)
                ns2 == IF IsElement(ns1[cc])
                       THEN [ns1 EXCEPT ![cc].ann = TRUE,
                                        ![cc].directives = m.directives,
                                        ![cc].info = m.info,
                                        ![cc].t_node = <<>>]
                       ELSE ns1
            IN [st |-> CompileDirectives([st EXCEPT !.ns = ns2], nc,
                                         m.directives, cc),
                crtcopy |-> cc, direction |-> dir]

\* ConvertTarget without the test of down: the clone always becomes a child.
ConvertTarget_Mut(ns, crtcopy, down) == crtcopy

\* The node __pre_link_node appends the clone to.
ConvertTarget(ns, crtcopy, down) == IF down THEN crtcopy ELSE ns[crtcopy].parent

\* Converter.__pre_link_node: the node step of the final rewrite walk.
ConvertNode(st, nc, crt, crtcopy, down) ==
    IF Copy(st.ns, st.inst, nc, crt)
    THEN LET target == ConvertTarget(st.ns, crtcopy, down)
             clone == Len(st.ns) + 1
             ns0 == CloneNode(st.ns, crt)
         IN IF target = None
            THEN [st |-> [st EXCEPT !.ns = ns0, !.err = "AttributeError"],
                  crtcopy |-> crtcopy, direction |-> "r"]
            ELSE [st |-> Start([st EXCEPT !.ns = AppendChild(ns0, target, clone)],
                               nc, clone),
                  crtcopy |-> clone,
                  direction |-> GetDirection(st.ns, st.inst, nc, crt)]
    ELSE [st |-> st, crtcopy |-> crtcopy, direction |-> "r"]

\* The pre_link hook of a directive: it is recorded, and a directive that
\* logs sends one message about the node, the class Plain without a uri; the
\* hook of the class Faulty raises ValueError.
PreLinkHook(st, node_c, crt) ==
    LET st1 == Hook(st, "pre_link", node_c.directive, crt) IN
    IF ~node_c.logs THEN st1
    ELSE IF node_c.cls = "Faulty" THEN [st1 EXCEPT !.err = "ValueError"]
    ELSE IF node_c.cls = "Plain" THEN MsgNoUri(st1, node_c.cls, "N002", crt, <<>>)
    ELSE Msg(st1, node_c.cls, "N001", crt, <<>>, "style")

\* Splice with the two steps exchanged: the original children come first.
Splice_Mut(ns, node_c, crt, t_node, tmp) ==
    ExtendChildren(IF node_c.transclude THEN ExtendChildren(ns, crt, tmp) ELSE ns,
                   crt, t_node)

\* The template is put into the node, then the original children if the
\* directive transcludes.
Splice(ns, node_c, crt, t_node, tmp) ==
    LET ns2 == ExtendChildren(ns, crt, t_node) IN
    IF node_c.transclude THEN ExtendChildren(ns2, crt, tmp) ELSE ns2

\* The loop of _pre_link_node over the directives of the node.
RECURSIVE PreLinkDirectives(_, _, _, _)
PreLinkDirectives(st, nc, directives, crt) ==
    IF directives = <<>> \/ st.err # "" THEN st
    ELSE LET directive == Head(directives)[1]
             node_c == st.inst[nc[directive]]
             tmp == Len(st.ns) + 1
             fragment == Node("DocumentFragment", "#document-fragment", <<>>, <<>>)
             ns1 == ExtendChildren(Append(st.ns, fragment), tmp, crt)
         IN IF directive \notin DOMAIN ns1[crt].t_node
            THEN [st EXCEPT !.ns = ns1, !.err = "KeyError"]
            ELSE LET t_node == ns1[crt].t_node[directive]
                     ns3 == Splice(ns1, node_c, crt, t_node, tmp)
                 IN PreLinkDirectives(
                        PreLinkHook([st EXCEPT !.ns = ns3], node_c, crt),
                        nc, Tail(directives), crt)

\* Converter._pre_link_node
PreLinkNode(st, nc, crt) ==
    IF ~st.ns[crt].ann THEN st
    ELSE PreLinkDirectives(st, nc, st.ns[crt].directives, crt)

\* PostLinkDirectives from the last directive to the first.
RECURSIVE PostLinkDirectives_Mut(_, _, _, _)
PostLinkDirectives_Mut(st, nc, directives, crt) ==
    IF directives = <<>> THEN st
    ELSE PostLinkDirectives_Mut(
             Hook(st, "post_link", directives[Len(directives)][1], crt),
             nc, SubSeq(directives, 1, Len(directives) - 1), crt)

\* The loop of _post_link_node over the directives of the node.
RECURSIVE PostLinkDirectives(_, _, _, _)
PostLinkDirectives(st, nc, directives, crt) ==
    IF directives = <<>> THEN st
    ELSE PostLinkDirectives(Hook(st, "post_link", Head(directives)[1], crt),
                            nc, Tail(directives), crt)

\* Converter._post_link_node
PostLinkNode(st, nc, crt) ==
    IF ~st.ns[crt].ann THEN st
    ELSE PostLinkDirectives(st, nc, st.ns[crt].directives, crt)

\* ------------------------------------------------------------------ walks
\* One turn of the while loop of _compile_doc.  w holds the locals of the walk:
\* crt, crtcopy, direction, loop, and the state st the walk works on.
CompileIter(w, nc, root) ==
    LET ns == w.st.ns IN
    IF w.direction = "d"
    THEN LET c == ns[w.crt].child[1]
             r == CompileNode(w.st, nc, c, w.crtcopy, TRUE)
         IN [st |-> r.st, crt |-> c, crtcopy |-> r.crtcopy,
             direction |-> r.direction, loop |-> TRUE, visit |-> c]
    ELSE IF w.direction = "r"
    THEN LET nx == NextSibling(ns, w.crt) IN
         IF nx = None THEN [w EXCEPT !.direction = "u"]
         ELSE LET r == CompileNode(w.st, nc, nx, w.crtcopy, FALSE) IN
              [st |-> r.st, crt |-> nx, crtcopy |-> r.crtcopy,
               direction |-> r.direction, loop |-> TRUE, visit |-> nx]
    ELSE LET up == ns[w.crtcopy].parent IN
         IF up = None
         THEN [w EXCEPT !.crtcopy = None, !.st.err = "AttributeError"]
         ELSE LET st1 == [w.st EXCEPT !.ns = Normalize(ns, up)]
                  p == ns[w.crt].parent
              IN IF p = root
                 THEN [w EXCEPT !.st = st1, !.crtcopy = up, !.loop = FALSE]
                 ELSE IF NextSibling(ns, p) = None
                 THEN [w EXCEPT !.st = st1, !.crtcopy = up, !.crt = p]
                 ELSE LET nx == NextSibling(ns, p)
                          r == CompileNode(st1, nc, nx, up, FALSE)
                      IN [st |-> r.st, crt |-> nx, crtcopy |-> r.crtcopy,
                          direction |-> r.direction, loop |-> TRUE, visit |-> nx]

\* LinkDescend with post_link fired on the way down, right after pre_link.
LinkDescend_Mut(w, nc) ==
    LET c == w.st.ns[w.crt].child[1]
        st1 == PostLinkNode(PreLinkNode(w.st, nc, c), nc, c)
    IN [w EXCEPT !.st = st1, !.crt = c, !.visit = c, !.direction = GetLinkDirection(st1.ns, c)]

\* The turn of _link_doc for direction 'd': the first child is pre-linked.
LinkDescend(w, nc) ==
    LET c == w.st.ns[w.crt].child[1]
        st1 == PreLinkNode(w.st, nc, c)
    IN [w EXCEPT !.st = st1, !.crt = c, !.visit = c, !.direction = GetLinkDirection(st1.ns, c)]

\* One turn of the while loop of _link_doc; the walk has no crtcopy.
LinkIter(w, nc, root) ==
    LET ns == w.st.ns IN
    IF w.direction = "d" THEN LinkDescend(w, nc)
    ELSE IF w.direction = "r"
    THEN LET nx == NextSibling(ns, w.crt) IN
         IF nx = None THEN [w EXCEPT !.direction = "u"]
         ELSE LET st1 == PreLinkNode(w.st, nc, nx) IN
              [w EXCEPT !.st = st1, !.crt = nx, !.visit = nx,
                        !.direction = GetLinkDirection(st1.ns, nx)]
    ELSE LET p == ns[w.crt].parent
             st1 == PostLinkNode(w.st, nc, p)
         IN IF p = root THEN [w EXCEPT !.st = st1, !.loop = FALSE]
            ELSE IF NextSibling(ns, p) = None
            THEN [w EXCEPT !.st = st1, !.crt = p]
            ELSE LET nx == NextSibling(ns, p)
                     st2 == PreLinkNode(st1, nc, nx)
                 IN [w EXCEPT !.st = st2, !.crt = nx, !.visit = nx,
                              !.direction = GetLinkDirection(st2.ns, nx)]

\* One turn of the while loop of _convert.
ConvertIter(w, nc, root) ==
    LET ns == w.st.ns IN
    IF w.direction = "d"
    THEN LET c == ns[w.crt].child[1]
             r == ConvertNode(w.st, nc, c, w.crtcopy, TRUE)
         IN [st |-> r.st, crt |-> c, crtcopy |-> r.crtcopy,
             direction |-> r.direction, loop |-> TRUE, visit |-> c]
    ELSE IF w.direction = "r"
    THEN LET nx == NextSibling(ns, w.crt) IN
         IF nx = None THEN [w EXCEPT !.direction = "u"]
         ELSE LET r == ConvertNode(w.st, nc, nx, w.crtcopy, FALSE) IN
              [st |-> r.st, crt |-> nx, crtcopy |-> r.crtcopy,
               direction |-> r.direction, loop |-> TRUE, visit |-> nx]
    ELSE LET up == ns[w.crtcopy].parent IN
         IF up = None
         THEN [w EXCEPT !.crtcopy = None, !.st.err = "AttributeError"]
         ELSE LET st0 == End(w.st, nc, up)
                  st1 == [st0 EXCEPT !.ns = Normalize(st0.ns, up)]
                  p == ns[w.crt].parent
              IN IF p = root
                 THEN [w EXCEPT !.st = st1, !.crtcopy = up, !.loop = FALSE]
                 ELSE IF NextSibling(ns, p) = None
                 THEN [w EXCEPT !.st = st1, !.crtcopy = up, !.crt = p]
                 ELSE LET nx == NextSibling(ns, p)
                          r == ConvertNode(st1, nc, nx, up, FALSE)
                      IN [st |-> r.st, crt |-> nx, crtcopy |-> r.crtcopy,
                          direction |-> r.direction, loop |-> TRUE, visit |-> nx]

\* ------------------------------------------------------------------ state
VARIABLES
    nodes,           \* the arena of nodes; a node is referred to by its index
    inst,            \* the NodeConverter instances created so far
    nc,              \* Converter._nc: directive name -> instance
    node_converter,  \* Converter._node_converter: class name -> instance
    reload,          \* Converter._reload
    repository,      \* REPOSITORY of the style module of the converter
    tolang,          \* Converter._tolang
    doc,             \* Converter.doc, the stack of output documents
    log,             \* Converter.log, the stack of log documents
    indoc,           \* the document handed to convert()
    pc,              \* the position of the convert() call in progress
    crt,             \* walk local: the node being visited
    crtcopy,         \* walk local: the current output node
    direction,       \* walk local: "d", "r" or "u"
    doccopy,         \* convert() local: the compiled copy
    ret,             \* the document the last convert() returned
    status,          \* how the last convert() ended: "", "returned", "raised"
    error,           \* the exception that ended it: <<position, name>>, or <<>>
    ncalls,          \* number of convert() calls started
    calls,           \* history: the hook calls made, in order
    matched,         \* the result of the last get_node_directives call
    visits,          \* history: the node steps of the walks of the last convert()
    current,         \* get_current_node.current, the stack of executing PIs
    converter,       \* include.converter, the stack of executing converters
    frames,          \* the exec_python calls in progress, innermost last
    inner,           \* the converters created by include(): their doc and log
    execs,           \* history: the exec_python calls that are over, in order
    regcall,         \* history: the last register() call and how it ended
    namespace,       \* get_lexor_namespace.namespace: __FILE__, __DIR__, __NODE__
    stdout,          \* sys.stdout: None, or the PI whose StringIO it is
    threads          \* the threads of a host that converts concurrently

\* The variables of embedded execution and of register().
execvars == <<current, converter, frames, inner, execs, regcall, namespace, stdout,
              threads>>

vars == <<nodes, inst, nc, node_converter, reload, repository, tolang, doc, log,
          indoc, pc, crt, crtcopy, direction, doccopy, ret, status, error,
          ncalls, calls, matched, visits, execvars>>

\* ------------------------------------------------------------------ inputs
\* The style modules the converter is run with.
Wrap     == DirectiveClass("Wrap", "d", {"E"}, 0, "T", FALSE, TRUE, TRUE, TRUE, FALSE)
WrapOnly == DirectiveClass("WrapOnly", "d", {"E"}, 0, "U", FALSE, FALSE, TRUE, TRUE, FALSE)
Drop     == DirectiveClass("Drop", "d", {"E"}, 0, "", TRUE, TRUE, TRUE, TRUE, FALSE)
Hide     == DirectiveClass("Hide", "e", {"A"}, 0, "", TRUE, TRUE, TRUE, TRUE, FALSE)
Low      == DirectiveClass("Low", "d", {"A"}, 0, "", FALSE, TRUE, TRUE, TRUE, FALSE)
High     == DirectiveClass("High", "e", {"A"}, 1, "", FALSE, TRUE, TRUE, TRUE, TRUE)
Both     == DirectiveClass("Both", "d", {"E", "A"}, 0, "T", FALSE, TRUE, TRUE, TRUE, FALSE)
Top      == DirectiveClass("Top", "e", {"A"}, 1, "U", FALSE, TRUE, TRUE, TRUE, FALSE)
NoCopy   == DirectiveClass("NoCopy", "d", {"E"}, 0, "", FALSE, TRUE, FALSE, TRUE, FALSE)
NoKids   == DirectiveClass("NoKids", "d", {"E"}, 0, "", FALSE, TRUE, TRUE, FALSE, FALSE)
NoKidsAttr == DirectiveClass("NoKidsAttr", "d", {"A"}, 0, "", FALSE, TRUE, TRUE, FALSE, FALSE)
Plain    == DirectiveClass("Plain", "d", {"E"}, 0, "", FALSE, TRUE, TRUE, TRUE, TRUE)
Faulty   == DirectiveClass("Faulty", "d", {"E"}, 0, "", FALSE, TRUE, TRUE, TRUE, TRUE)

Repositories ==
    { <<>>, <<Wrap>>, <<WrapOnly>>, <<Drop>>, <<Hide>>, <<Low, High>>, <<Both, Top>>,
      <<NoCopy>>, <<NoKids>>, <<NoKidsAttr>>, <<Plain>>, <<Faulty>> }

\* The nodes an input document is made of.
Labels ==
    { Node("Element", "d", <<>>, <<>>),
      Node("Element", "p", << <<"d", "">>, <<"e", "1">> >>, <<>>),
      Node("Text", "#text", <<>>, <<"x">>),
      Node("Text", "#text", <<>>, <<>>) }

\* The language and style of an input document, with the target language.
Targets == { <<"xml", "default", "xml">>, <<"xml", "custom", "html">> }

RECURSIVE AncOrSelf(_, _, _)
AncOrSelf(par, a, n) == a = n \/ (n > 1 /\ AncOrSelf(par, a, par[n]))

\* The nodes 2..k+1 are numbered in document order and only the root
\* and elements have children.
WellFormed(k, par, lab) ==
    /\ \A i \in 2..(k + 1) : par[i] < i
    /\ \A i \in 2..(k + 1) :
          /\ IF par[i] = 1 THEN TRUE ELSE IsElement(lab[par[i]])
          /\ i > 2 => AncOrSelf(par, par[i], i - 1)

RECURSIVE Ascending(_)
Ascending(S) ==
    IF S = {} THEN <<>>
    ELSE LET m == CHOOSE x \in S : \A y \in S : x <= y IN
         <<m>> \o Ascending(S \ {m})

InputDocument(k, par, lab, target) ==
    [i \in 1..(k + 1) |->
        IF i = 1
        THEN [Node("Document", "#document", <<>>, <<>>)
                EXCEPT !.lang = target[1], !.style = target[2],
                       !.child = Ascending({j \in 2..(k + 1) : par[j] = 1})]
        ELSE [lab[i] EXCEPT !.parent = par[i],
                            !.child = Ascending({j \in 2..(k + 1) : par[j] = i})]]

\* The state after Converter(fromlang, tolang, style): nothing is loaded yet.
InitConverter ==
    /\ inst = <<>>
    /\ nc = <<>>
    /\ node_converter = <<>>
    /\ reload = TRUE
    /\ doc = <<>>
    /\ log = <<>>
    /\ indoc = 1
    /\ pc = "idle"
    /\ crt = None
    /\ crtcopy = None
    /\ direction = ""
    /\ doccopy = None
    /\ ret = None
    /\ status = ""
    /\ error = <<>>
    /\ ncalls = 0
    /\ calls = <<>>
    /\ matched = <<>>
    /\ visits = <<>>
    /\ regcall = <<>>

\* The module-level stacks are empty lists when the module is loaded.
InitGlobals ==
    /\ current = <<>>
    /\ converter = <<>>
    /\ frames = <<>>
    /\ inner = <<>>
    /\ execs = <<>>
    /\ namespace = <<>>
    /\ stdout = None
    /\ threads = <<>>

\* A converter for one of the style modules and a document to convert.
Init ==
    /\ \E k \in 0..MaxNodes :
         \E par \in [2..(k + 1) -> 1..(k + 1)], lab \in [2..(k + 1) -> Labels],
            target \in Targets :
            /\ WellFormed(k, par, lab)
            /\ nodes = InputDocument(k, par, lab, target)
            /\ tolang = target[3]
    /\ repository \in Repositories
    /\ InitConverter
    /\ InitGlobals

\* ----------------------------------------------------------------- actions
\* The state the node-level operations work on.
State == [ns |-> nodes, inst |-> inst, calls |-> calls, log |-> log, doc |-> doc, err |-> ""]

Walk == [st |-> State, crt |-> crt, crtcopy |-> crtcopy, direction |-> direction,
         loop |-> TRUE, visit |-> None]

\* An exception leaves convert(): the call is over, the walk locals are gone.
Raise(name) ==
    /\ pc' = "idle"
    /\ status' = "raised"
    /\ error' = <<pc, name>>
    /\ crt' = None
    /\ crtcopy' = None
    /\ direction' = ""

\* The effect of one turn of a walk on the variables; done is the position
\* after the loop.
Turn(w, done) ==
    /\ nodes' = w.st.ns
    /\ inst' = w.st.inst
    /\ calls' = w.st.calls
    /\ log' = w.st.log
    /\ visits' = IF w.visit # None THEN Append(visits, <<pc, w.visit>>) ELSE visits
    /\ IF w.st.err # "" THEN Raise(w.st.err)
       ELSE /\ pc' = IF w.loop THEN pc ELSE done
            /\ error' = error
            /\ crt' = w.crt
            /\ crtcopy' = w.crtcopy
            /\ direction' = w.direction
            /\ status' = status

\* convert(doc), up to the loop of _compile_doc: the node converters are
\* loaded if need be, a log document is pushed and the root is cloned.
Convert ==
    /\ pc = "idle"
    /\ ncalls < MaxCalls
    /\ ncalls' = ncalls + 1
    /\ LET r == IF reload THEN SetNodeConverters(inst, repository)
                ELSE [inst |-> inst, node_converter |-> node_converter,
                      nc |-> nc, err |-> ""]
       IN /\ inst' = r.inst
          /\ nc' = r.nc
          /\ node_converter' = r.node_converter
          /\ IF r.err # ""
             THEN /\ Raise(r.err)
                  /\ UNCHANGED <<nodes, reload, log, doccopy>>
             ELSE /\ reload' = FALSE
                  /\ log' = Append(log, [msgs |-> <<>>, modules |-> {}])
                  /\ nodes' = CloneNode(nodes, indoc)
                  /\ doccopy' = Len(nodes) + 1
                  /\ crt' = indoc
                  /\ crtcopy' = Len(nodes) + 1
                  /\ direction' = GetDirection(nodes, r.inst, r.nc, indoc)
                  /\ pc' = IF direction' = "d" THEN "compile" ELSE "compiled"
                  /\ status' = ""
                  /\ error' = <<>>
    /\ visits' = <<>>
    /\ UNCHANGED <<repository, tolang, doc, indoc, ret, calls, matched>>
    /\ UNCHANGED execvars

\* One turn of the loop of _compile_doc.
CompileStep ==
    /\ pc = "compile"
    /\ Turn(CompileIter(Walk, nc, indoc), "compiled")
    /\ UNCHANGED <<nc, node_converter, reload, repository, tolang, doc, indoc,
                   doccopy, ret, ncalls, matched>>
    /\ UNCHANGED execvars

\* _link_doc(doccopy), up to its loop.
LinkBegin ==
    /\ pc = "compiled"
    /\ crt' = doccopy
    /\ crtcopy' = None
    /\ direction' = GetLinkDirection(nodes, doccopy)
    /\ pc' = IF direction' = "d" THEN "link" ELSE "linked"
    /\ UNCHANGED <<nodes, inst, nc, node_converter, reload, repository, tolang,
                   doc, log, indoc, doccopy, ret, status, error, ncalls, calls,
                   matched, visits>>
    /\ UNCHANGED execvars

\* One turn of the loop of _link_doc.
LinkStep ==
    /\ pc = "link"
    /\ Turn(LinkIter(Walk, nc, doccopy), "linked")
    /\ UNCHANGED <<nc, node_converter, reload, repository, tolang, doc, indoc,
                   doccopy, ret, ncalls, matched>>
    /\ UNCHANGED execvars

\* The document convert() hands to _convert: self._convert(doc).
FinalWalkInput == indoc

\* _convert(doc), up to its loop: a clone of the root is pushed on self.doc.
ConvertBegin ==
    /\ pc = "linked"
    /\ LET root == FinalWalkInput
           out == Len(nodes) + 1
           st == Start([State EXCEPT !.ns = CloneNode(nodes, root)], nc, out)
       IN /\ nodes' = st.ns
          /\ calls' = st.calls
          /\ doc' = Append(doc, out)
          /\ crt' = root
          /\ crtcopy' = out
          /\ direction' = GetDirection(nodes, inst, nc, root)
          /\ pc' = IF direction' = "d" THEN "final" ELSE "finish"
    /\ UNCHANGED <<inst, nc, node_converter, reload, repository, tolang, log,
                   indoc, doccopy, ret, status, error, ncalls, matched, visits>>
    /\ UNCHANGED execvars

\* One turn of the loop of _convert.
ConvertStep ==
    /\ pc = "final"
    /\ Turn(ConvertIter(Walk, nc, FinalWalkInput), "finish")
    /\ UNCHANGED <<nc, node_converter, reload, repository, tolang, doc, indoc,
                   doccopy, ret, ncalls, matched>>
    /\ UNCHANGED execvars

\* The end of convert(): the top document gets the target language and the
\* style "default", and doccopy is returned with the top log.
Finish ==
    /\ pc = "finish"
    /\ nodes' = [nodes EXCEPT ![doc[Len(doc)]].lang = tolang,
                              ![doc[Len(doc)]].style = "default"]
    /\ ret' = doccopy
    /\ status' = "returned"
    /\ pc' = "idle"
    /\ crt' = None
    /\ crtcopy' = None
    /\ direction' = ""
    /\ UNCHANGED <<inst, nc, node_converter, reload, repository, tolang, doc, log,
                   indoc, doccopy, error, ncalls, calls, matched, visits>>
    /\ UNCHANGED execvars

Next ==
    \/ Convert
    \/ CompileStep
    \/ LinkBegin
    \/ LinkStep
    \/ ConvertBegin
    \/ ConvertStep
    \/ Finish

Spec == Init /\ [][Next]_vars

\* --------------------------------------------------------------- matcher
\* The matcher on its own: a converter loads a style module, then
\* get_node_directives is applied to one node.
MatchNames == {"d", "e", "p"}

MatchValues == {"", "1"}

\* The classes a style module may declare for a directive name.
MatchClasses(cls, directive) ==
    { DirectiveClass(cls, directive, restrict, priority, "", remove, TRUE, TRUE,
                     TRUE, FALSE) :
        restrict \in {{"E"}, {"A"}, {"E", "A"}}, priority \in 0..MaxPriority,
        remove \in BOOLEAN }

MatchRepositories ==
    { x \o y : x \in {<<>>} \cup { <<c>> : c \in MatchClasses("D", "d") },
               y \in {<<>>} \cup { <<c>> : c \in MatchClasses("E", "e") } }

\* Attribute lists: distinct names, in insertion order, each with a value.
MatchAttributes ==
    { atts \in UNION { [1..n -> MatchNames \X MatchValues] : n \in 0..MaxAttrs } :
        \A i, j \in 1..Len(atts) : i # j => atts[i][1] # atts[j][1] }

MatchNodes ==
    { Node("Element", name, atts, <<>>) : name \in MatchNames, atts \in MatchAttributes }
    \cup { Node("ProcessingInstruction", name, <<>>, <<"x">>) : name \in MatchNames }

InitMatch ==
    /\ \E node \in MatchNodes : nodes = <<node>>
    /\ tolang = "xml"
    /\ repository \in MatchRepositories
    /\ InitConverter
    /\ InitGlobals

\* _set_node_converters: the node converters of the style module are loaded.
LoadStyle ==
    /\ pc = "idle"
    /\ reload
    /\ LET r == SetNodeConverters(inst, repository) IN
         /\ inst' = r.inst
         /\ nc' = r.nc
         /\ node_converter' = r.node_converter
         /\ reload' = FALSE
    /\ UNCHANGED <<nodes, repository, tolang, doc, log, indoc, pc, crt, crtcopy,
                   direction, doccopy, ret, status, error, ncalls, calls, matched,
                   visits>>
    /\ UNCHANGED execvars

\* get_node_directives(node)
Match ==
    /\ pc = "idle"
    /\ ~reload
    /\ matched' = GetNodeDirectives(inst, nc, nodes[indoc])
    /\ pc' = "matched"
    /\ UNCHANGED <<nodes, inst, nc, node_converter, reload, repository, tolang,
                   doc, log, indoc, crt, crtcopy, direction, doccopy, ret, status,
                   error, ncalls, calls, visits>>
    /\ UNCHANGED execvars

NextMatch == LoadStyle \/ Match

SpecMatch == InitMatch /\ [][NextMatch]_vars

\* ------------------------------------------------------------- properties
RECURSIVE Descendants(_, _)
Descendants(ns, n) ==
    {n} \cup UNION { Descendants(ns, ns[n].child[i]) : i \in 1..Len(ns[n].child) }

\* The tree below a node, by value: kind, name, attributes, data and children.
RECURSIVE Shape(_, _)
Shape(ns, n) ==
    [kind |-> ns[n].kind, name |-> ns[n].name, attrs |-> ns[n].attrs,
     data |-> ns[n].data,
     kids |-> [i \in 1..Len(ns[n].child) |-> Shape(ns, ns[n].child[i])]]

\* The last convert() call has returned.
Returned == pc = "idle" /\ status = "returned"

\* Converter.document, which lexor.convert hands to its caller.
Output == doc[Len(doc)]

\* The names of the nodes the templates are made of.
TemplateNames == {"w", "c", "u", "v"}

NoAdjacentText(ns, root) ==
    \A n \in Descendants(ns, root) : \A i \in 1..(Len(ns[n].child) - 1) :
        ~(IsText(ns[ns[n].child[i]]) /\ IsText(ns[ns[n].child[i + 1]]))

NoEmptyTextSibling(ns, root) ==
    \A n \in Descendants(ns, root) :
        Len(ns[n].child) > 1 =>
            \A i \in 1..Len(ns[n].child) : ~EmptyText(ns[ns[n].child[i]])

\* C1: when convert() has returned, the output document (the document of the
\* final walk) holds the template nodes the link phase put into the compiled
\* copy: every template node of the linked copy has a node of its name in
\* the output document.
C1_OutputHasTemplate ==
    Returned =>
        \A n \in Descendants(nodes, doccopy) :
            nodes[n].name \in TemplateNames =>
                \E m \in Descendants(nodes, Output) : nodes[m].name = nodes[n].name

\* C2: the document convert() returns has the target language as its lang
\* and "default" as its style.
C2_ReturnedLangStyle ==
    Returned => nodes[ret].lang = tolang /\ nodes[ret].style = "default"

\* The output of an identity conversion: the tree of the input, the target
\* language, the style "default", and an empty log.
IdentityOutput ==
    /\ Shape(nodes, Output).kids = Shape(nodes, indoc).kids
    /\ nodes[Output].kind = nodes[indoc].kind
    /\ nodes[Output].lang = tolang
    /\ nodes[Output].style = "default"
    /\ log[Len(log)].msgs = <<>>

\* C3 as stated: with an empty REPOSITORY, a document without adjacent Text
\* siblings is converted to a structural clone of itself with lang and style
\* updated, and the log stays empty.
C3_Identity ==
    (Returned /\ repository = <<>> /\ NoAdjacentText(nodes, indoc))
        => IdentityOutput

\* C3 amended: with an empty REPOSITORY, a document without adjacent Text
\* siblings and without an empty Text node that has siblings is converted to
\* a structural clone of itself with lang and style updated, and the log
\* stays empty.
C3_IdentityNormalized ==
    (Returned /\ repository = <<>> /\ NoAdjacentText(nodes, indoc)
       /\ NoEmptyTextSibling(nodes, indoc))
        => IdentityOutput

\* An identity conversion of a document with nested nodes has returned.
C3_Witness ==
    /\ Returned
    /\ repository = <<>>
    /\ NoAdjacentText(nodes, indoc)
    /\ NoEmptyTextSibling(nodes, indoc)
    /\ \E n \in Descendants(nodes, indoc) :
          n # indoc /\ nodes[n].child # <<>> /\ IsText(nodes[nodes[n].child[1]])
    /\ nodes[indoc].lang # tolang

\* The input node matches a directive with remove=true.
Removed(n) == GetNodeDirectives(inst, nc, nodes[n]).info.remove # <<>>

\* The tree below an input node without the removed nodes and what is below them.
RECURSIVE Kept(_)
Kept(n) ==
    LET keep == SelectSeq(nodes[n].child, LAMBDA c : ~Removed(c)) IN
    [kind |-> nodes[n].kind, name |-> nodes[n].name, attrs |-> nodes[n].attrs,
     data |-> nodes[n].data, kids |-> [i \in 1..Len(keep) |-> Kept(keep[i])]]

\* C4: when a node of the input (here a document of elements only) matches a
\* directive with remove=true, the compile walk does not fail and the
\* compiled copy is the input without the removed nodes and their
\* descendants, every other node under the clone of its own parent in the
\* original order.
C4_RemoveCompiles ==
    (/\ ~reload
     /\ \A n \in Descendants(nodes, indoc) : n = indoc \/ IsElement(nodes[n])
     /\ \E n \in Descendants(nodes, indoc) : n # indoc /\ Removed(n))
        => /\ ~(status = "raised" /\ error[1] = "compile")
           /\ pc = "compiled" => Shape(nodes, doccopy) = Kept(indoc)

\* The node handed to the matcher.
MatchedNode == nodes[indoc]

\* The match by the name of the node, if there is one.
ElementMatch ==
    LET name == MatchedNode.name IN
    IF name \in DOMAIN nc /\ "E" \in inst[nc[name]].restrict
    THEN << <<name, inst[nc[name]].priority>> >>
    ELSE <<>>

\* The matches by attribute, in the order of the attributes.
AttributeMatches ==
    LET applies(a) == a[1] \in DOMAIN nc /\ "A" \in inst[nc[a[1]]].restrict
        sel == IF IsElement(MatchedNode)
               THEN SelectSeq(MatchedNode.attrs, applies)
               ELSE <<>>
    IN [i \in 1..Len(sel) |-> <<sel[i][1], inst[nc[sel[i][1]]].priority>>]

\* The matches of each priority from p down to 0, kept in their order.
RECURSIVE Descending(_, _)
Descending(matches, p) ==
    IF p < 0 THEN <<>>
    ELSE SelectSeq(matches, LAMBDA m : m[2] = p) \o Descending(matches, p - 1)

\* C5: get_node_directives returns the matches by descending priority; among
\* matches of one priority the match by the node's name comes first and the
\* matches by attribute keep the order of the attributes.
C5_Order ==
    pc = "matched" =>
        matched.directives = Descending(ElementMatch \o AttributeMatches, MaxPriority)

\* Three matches: the name of the node and two attributes, one of which has
\* a higher priority and was moved to the front.
C5_Witness ==
    /\ pc = "matched"
    /\ Len(matched.directives) = 3
    /\ ElementMatch # <<>>
    /\ matched.directives[1] # ElementMatch[1]
    /\ matched.directives[2][2] = matched.directives[3][2]

\* How often a name is among the matches.
Occurrences(name) ==
    Cardinality({ i \in 1..Len(matched.directives) : matched.directives[i][1] = name })

\* C6: a name is in the list once for the node's name if it is a directive
\* whose restrict contains 'E', once for an attribute of that name if the node
\* is an Element and it is a directive whose restrict contains 'A', whatever
\* the value of the attribute, and not otherwise; each with the priority of
\* its directive.
C6_Restrict ==
    pc = "matched" =>
        /\ \A name \in MatchNames :
              Occurrences(name) =
                  (IF name = MatchedNode.name /\ name \in DOMAIN nc
                      /\ "E" \in inst[nc[name]].restrict THEN 1 ELSE 0)
                  + (IF IsElement(MatchedNode) /\ HasAttr(MatchedNode, name)
                        /\ name \in DOMAIN nc /\ "A" \in inst[nc[name]].restrict
                     THEN 1 ELSE 0)
        /\ \A i \in 1..Len(matched.directives) :
              /\ matched.directives[i][1] \in DOMAIN nc
              /\ matched.directives[i][2] = inst[nc[matched.directives[i][1]]].priority

\* The node is named like a directive that is restricted to attributes and
\* has an attribute named like a directive restricted to elements; a third
\* attribute, with a value, is the only match.
C6_Witness ==
    /\ pc = "matched"
    /\ IsElement(MatchedNode)
    /\ MatchedNode.name \in DOMAIN nc
    /\ "E" \notin inst[nc[MatchedNode.name]].restrict
    /\ \E i \in 1..Len(MatchedNode.attrs) :
          /\ MatchedNode.attrs[i][1] \in DOMAIN nc
          /\ "A" \notin inst[nc[MatchedNode.attrs[i][1]]].restrict
    /\ \E i \in 1..Len(MatchedNode.attrs) :
          /\ MatchedNode.attrs[i][2] # ""
          /\ MatchedNode.attrs[i][1] \in DOMAIN nc
          /\ matched.directives = << <<MatchedNode.attrs[i][1],
                                      inst[nc[MatchedNode.attrs[i][1]]].priority>> >>

\* The step pre-links node n: its last hook call is a pre_link on n.
PreLinks(n) ==
    /\ pc = "link"
    /\ status' # "raised"
    /\ Len(calls') > Len(calls)
    /\ calls'[Len(calls')].hook = "pre_link"
    /\ calls'[Len(calls')].node = n

\* The node has one directive, and the directive has a template.
SingleTemplate(n) ==
    /\ nodes[n].ann
    /\ Len(nodes[n].directives) = 1
    /\ inst[nc[nodes[n].directives[1][1]]].template # ""

\* C7, for one step: pre-linking a node that has a single directive with a
\* template leaves it with the children of the template handed to it,
\* followed by its original children in their order if the directive
\* transcludes, and without its original children if it does not.
C7_Step ==
    \A n \in 1..Len(nodes) :
        (PreLinks(n) /\ SingleTemplate(n)) =>
            LET directive == nodes[n].directives[1][1]
                template == nodes[nodes[n].t_node[directive]].child
                original == nodes[n].child
            IN /\ nodes'[n].child =
                     template \o (IF inst[nc[directive]].transclude
                                  THEN original ELSE <<>>)
               /\ \A i \in 1..Len(nodes'[n].child) :
                     nodes'[nodes'[n].child[i]].parent = n
               /\ ~inst[nc[directive]].transclude =>
                     \A i \in 1..Len(original) : nodes'[original[i]].parent # n

\* C7: every pre-link step of a node with a single directive that has a
\* template puts the template's children first and the original children
\* after them, or drops the original children when transclude is false.
C7_Transclusion == [][C7_Step]_vars

\* A pre-linked node with a single transcluding template directive holds a
\* template node followed by a clone of an input node.
C7_Witness ==
    \E n \in 1..Len(nodes) :
        /\ SingleTemplate(n)
        /\ inst[nc[nodes[n].directives[1][1]]].transclude
        /\ \E i \in 1..Len(calls) : calls[i].hook = "pre_link" /\ calls[i].node = n
        /\ Len(nodes[n].child) >= 2
        /\ nodes[nodes[n].child[1]].name \in TemplateNames
        /\ nodes[nodes[n].child[Len(nodes[n].child)]].src # None
        /\ nodes[nodes[n].child[Len(nodes[n].child)]].name \notin TemplateNames

\* The directives of the calls of a hook on a node, in the order of the calls.
HookCalls(hook, n) ==
    LET made == SelectSeq(calls, LAMBDA c : c.hook = hook /\ c.node = n) IN
    [i \in 1..Len(made) |-> made[i].directive]

\* The directive list of an annotated node, as names.
DirectiveNames(n) == [i \in 1..Len(nodes[n].directives) |-> nodes[n].directives[i][1]]

\* C8: on every annotated node, whose directive list is sorted by descending
\* priority, the pre_link hooks that were called are those of the list in the
\* order of the list, and so are the post_link hooks that were called.
C8_HookOrder ==
    \A n \in 1..Len(nodes) :
        nodes[n].ann =>
            /\ \A i, j \in 1..Len(nodes[n].directives) :
                  i < j => nodes[n].directives[i][2] >= nodes[n].directives[j][2]
            /\ HookCalls("pre_link", n) \in {<<>>, DirectiveNames(n)}
            /\ HookCalls("post_link", n) \in {<<>>, DirectiveNames(n)}

\* A node with two directives of different priority was pre-linked and post-linked.
C8_Witness ==
    \E n \in 1..Len(nodes) :
        /\ nodes[n].ann
        /\ Len(nodes[n].directives) = 2
        /\ nodes[n].directives[1][2] > nodes[n].directives[2][2]
        /\ HookCalls("pre_link", n) = DirectiveNames(n)
        /\ HookCalls("post_link", n) = DirectiveNames(n)

\* a is above n in the tree.
RECURSIVE Above(_, _, _)
Above(ns, a, n) ==
    IF ns[n].parent = None THEN FALSE
    ELSE ns[n].parent = a \/ Above(ns, a, ns[n].parent)

\* The places of the calls of a hook on a node in the history of calls.
CallsAt(hook, n) == { i \in 1..Len(calls) : calls[i].hook = hook /\ calls[i].node = n }

\* C9: for an annotated node P above an annotated node C, every pre_link on
\* P comes before every pre_link on C and every post_link on C before every
\* post_link on P; when C was pre-linked, P, if it has directives, was
\* pre-linked too.
C9_AcrossNodes ==
    \A P, C \in 1..Len(nodes) :
        (nodes[P].ann /\ nodes[C].ann /\ Above(nodes, P, C)) =>
            /\ \A i \in CallsAt("pre_link", P), j \in CallsAt("pre_link", C) : i < j
            /\ \A i \in CallsAt("post_link", P), j \in CallsAt("post_link", C) : j < i
            /\ (CallsAt("pre_link", C) # {} /\ nodes[P].directives # <<>>)
                  => CallsAt("pre_link", P) # {}

\* An annotated node and an annotated node below it were both pre-linked and
\* post-linked.
C9_Witness ==
    \E P, C \in 1..Len(nodes) :
        /\ nodes[P].ann /\ nodes[C].ann /\ Above(nodes, P, C)
        /\ CallsAt("pre_link", P) # {} /\ CallsAt("pre_link", C) # {}
        /\ CallsAt("post_link", P) # {} /\ CallsAt("post_link", C) # {}

\* C10: the template of a directive instance is parsed at most once, and the
\* template stored for a node in template_clones is never the cached AST of
\* the directive itself.
C10_TemplateCache ==
    /\ \A id \in 1..Len(inst) : inst[id].parses <= 1
    /\ \A n \in 1..Len(nodes) :
          nodes[n].ann =>
              \A directive \in DOMAIN nodes[n].t_node :
                  \/ nodes[n].t_node[directive] = None
                  \/ nodes[n].t_node[directive] # inst[nc[directive]].t_element

\* C11, for one step: no node of the input tree changes.
C11_Step == \A n \in Descendants(nodes, indoc) : nodes'[n] = nodes[n]

\* C11: no step of convert() changes a node of the input tree: its nodes
\* keep their parent, children, child order, attributes, data, lang and
\* style; the walks write to the copies only.
C11_InputUnchanged == [][C11_Step]_vars

\* A convert() of an input with children returned after the link phase
\* spliced a template into the compiled copy and the final walk cloned the
\* input; the input still has no template node.
C11_Witness ==
    /\ Returned
    /\ nodes[indoc].child # <<>>
    /\ \E n \in Descendants(nodes, doccopy) : nodes[n].name \in TemplateNames
    /\ Len(nodes[Output].child) = Len(nodes[indoc].child)
    /\ \A n \in Descendants(nodes, indoc) : nodes[n].name \notin TemplateNames

\* -------------------------------------------------------------- register
\* register() on its own: a converter loads a style module, then classes are
\* registered one after the other, with and without override.
MaxRegister == 3

RegisterNames == {"A", "B"}

\* The directive names of the classes; "" is a class that declares none.
RegisterDirectives == {"", "d", "e"}

RegisterClasses ==
    { DirectiveClass(cls, directive, {"E"}, 0, "", FALSE, TRUE, TRUE, TRUE, FALSE) :
        cls \in RegisterNames, directive \in RegisterDirectives }

InitRegister ==
    /\ nodes = <<>>
    /\ tolang = "xml"
    /\ repository \in {<<>>} \cup { <<c>> : c \in RegisterClasses }
    /\ InitConverter
    /\ InitGlobals

\* register(nc_class, override) called on the converter.
RegisterStep ==
    /\ pc = "idle"
    /\ ~reload
    /\ Len(inst) < MaxRegister
    /\ \E class \in RegisterClasses, override \in BOOLEAN :
         LET r == Register([inst |-> inst, node_converter |-> node_converter,
                            nc |-> nc, err |-> ""], class, override)
         IN /\ inst' = r.inst
            /\ nc' = r.nc
            /\ node_converter' = r.node_converter
            /\ regcall' = [cls |-> class.cls, directive |-> class.directive,
                           override |-> override, err |-> r.err,
                           id |-> Len(inst) + 1]
    /\ UNCHANGED <<nodes, reload, repository, tolang, doc, log, indoc, pc, crt,
                   crtcopy, direction, doccopy, ret, status, error, ncalls, calls,
                   matched, visits, current, converter, frames, inner, execs, namespace, stdout,
                   threads>>

NextRegister == LoadStyle \/ RegisterStep

SpecRegister == InitRegister /\ [][NextRegister]_vars

\* C17, for one register() call: the call made is regcall'.
C17_Step ==
    (~reload /\ <<inst, regcall>>' # <<inst, regcall>>) =>
        LET c == regcall' IN
        /\ (~c.override /\ c.directive # ""
              /\ (c.cls \in DOMAIN node_converter \/ c.directive \in DOMAIN nc))
             => c.err # ""
        /\ c.err # "" => (nc' = nc /\ node_converter' = node_converter)
        /\ c.err = "" =>
             /\ c.cls \in DOMAIN node_converter'
             /\ c.directive \in DOMAIN nc'
             /\ node_converter'[c.cls] = c.id
             /\ nc'[c.directive] = c.id
             /\ inst'[c.id].cls = c.cls
             /\ inst'[c.id].directive = c.directive

\* C17: register() without override rejects a class whose class name or
\* directive name is registered and leaves both maps as they were; a call
\* that is accepted leaves the new instance under its class name and under
\* its directive name.
C17_Register == [][C17_Step]_vars

\* A class with a new class name and a registered directive name was rejected.
C17_Witness ==
    /\ regcall # <<>>
    /\ regcall.err = "LexorError"
    /\ ~regcall.override
    /\ regcall.cls \notin DOMAIN node_converter
    /\ regcall.directive \in DOMAIN nc

\* C19: once the link walk is over, every annotated node whose pre_link
\* hooks fired has had its post_link hooks called, each once and in the
\* order of its directive list, whether or not the node has children.
C19_PostLinkFollows ==
    pc = "linked" =>
        \A n \in 1..Len(nodes) :
            (nodes[n].ann /\ CallsAt("pre_link", n) # {}) =>
                HookCalls("post_link", n) = DirectiveNames(n)

\* The names of the top-level nodes of a parsed template, in order.
TemplateTop(template) ==
    [i \in 1..Len(TemplateAST(template)) |-> TemplateAST(template)[i].node.name]

\* C20: after the pre-link of a node with several directives, the template
\* nodes put in for the first directive are where they were put: they are
\* the first children of the node, in the order of the template.
C20_EarlierTemplateStays ==
    \A n \in 1..Len(nodes) :
        (/\ nodes[n].ann
         /\ Len(nodes[n].directives) >= 2
         /\ HookCalls("pre_link", n) = DirectiveNames(n)
         /\ inst[nc[nodes[n].directives[1][1]]].template # "") =>
            LET top == TemplateTop(inst[nc[nodes[n].directives[1][1]]].template) IN
            /\ Len(nodes[n].child) >= Len(top)
            /\ \A i \in 1..Len(top) : nodes[nodes[n].child[i]].name = top[i]

\* ---------------------------------------------------- embedded execution
\* parent.insert_before(index, c), index counted from 0
InsertBefore(ns, p, index, c) ==
    LET a == Detach(ns, c) IN
    [a EXCEPT ![p].child = InsertAt(@, index, c), ![c].parent = p]

\* parent.extend_before(index, src): the children of src are moved in front
\* of the child at index, in their order.
RECURSIVE ExtendBefore(_, _, _, _)
ExtendBefore(ns, p, index, src) ==
    IF ns[src].child = <<>> THEN ns
    ELSE ExtendBefore(InsertBefore(ns, p, index, Head(ns[src].child)),
                      p, index + 1, src)

\* RemoveNode that always hands back the Text node it appends.
RemoveNode_Mut(ns, node) ==
    LET parent == ns[node].parent
        index == IndexOf(ns[parent].child, node) - 1
        ns1 == Detach(ns, node)
        text == Len(ns1) + 1
        ns2 == AppendChild(Append(ns1, Node("Text", "#text", <<>>, <<>>)),
                           parent, text)
    IN IF index - 1 > -1
       THEN [ns |-> ns1, newnode |-> ns1[parent].child[index]]
       ELSE [ns |-> ns2, newnode |-> text]

\* Converter.remove_node: the node is deleted from its parent; the result is
\* parent[index-1], or, after an empty Text node was appended, parent[0].
RemoveNode(ns, node) ==
    LET parent == ns[node].parent
        index == IndexOf(ns[parent].child, node) - 1
        ns1 == Detach(ns, node)
        text == Len(ns1) + 1
        ns2 == AppendChild(Append(ns1, Node("Text", "#text", <<>>, <<>>)),
                           parent, text)
    IN IF index - 1 > -1
       THEN [ns |-> ns1, newnode |-> ns1[parent].child[index]]
       ELSE [ns |-> ns2, newnode |-> ns2[parent].child[1]]

\* A log document as an argument of update_log.
LogArgument(logdoc) ==
    [type |-> "LogDocument", msgs |-> logdoc.msgs, modules |-> logdoc.modules]

\* A list as an argument of update_log: it has no modules and no explanation.
ListArgument(list) == [type |-> "list", items |-> list]

\* UpdateLog that puts the messages of the argument in place of the log's.
UpdateLog_Mut(logs, arg) ==
    IF arg.type # "LogDocument" THEN [log |-> logs, arg |-> arg, err |-> "AttributeError"]
    ELSE [log |-> [logs EXCEPT ![Len(logs)].modules = @ \cup arg.modules,
                               ![Len(logs)].msgs = arg.msgs],
          arg |-> [arg EXCEPT !.msgs = <<>>],
          err |-> ""]

\* Converter.update_log(log): the modules and the messages of the argument
\* are added to the top log document, the messages after those it has;
\* extend_children moves the messages, so the argument is left without them.
UpdateLog(logs, arg) ==
    IF arg.type # "LogDocument" THEN [log |-> logs, arg |-> arg, err |-> "AttributeError"]
    ELSE [log |-> [logs EXCEPT ![Len(logs)].modules = @ \cup arg.modules,
                               ![Len(logs)].msgs = @ \o arg.msgs],
          arg |-> [arg EXCEPT !.msgs = <<>>],
          err |-> ""]

\* TakeParserLog that records W101 and W102 first and the messages after them.
TakeParserLog_Mut(st, plog, pi, uri) ==
    LET st3 == Msg(st, "lexor.core.converter", "W101", pi, <<1>>, uri)
        st4 == Msg(st3, "lexor.core.converter", "W102", pi, <<1>>, uri)
        taken == UpdateLog(st4.log, LogArgument(plog))
    IN IF plog.msgs = <<>> THEN [st |-> st, plog |-> plog]
       ELSE [st |-> [st4 EXCEPT !.log = taken.log],
             plog |-> [msgs |-> taken.arg.msgs, modules |-> taken.arg.modules]]

\* exec_python lines 685-688: if the log of the parser has messages, W101
\* about the PI, then update_log(parser.log), then W102 about the PI.
TakeParserLog(st, plog, pi, uri) ==
    LET st3 == Msg(st, "lexor.core.converter", "W101", pi, <<1>>, uri)
        taken == UpdateLog(st3.log, LogArgument(plog))
        st4 == Msg([st3 EXCEPT !.log = taken.log], "lexor.core.converter", "W102",
                   pi, <<1>>, uri)
    IN IF plog.msgs = <<>> THEN [st |-> st, plog |-> plog]
       ELSE [st |-> st4,
             plog |-> [msgs |-> taken.arg.msgs, modules |-> taken.arg.modules]]

\* echo(value) while pi, the executing PI, is the top of the current-node stack.  A value is a
\* string, a node of the arena or a list of values; r.ins are the nodes put
\* before pi, in order.
RECURSIVE Echo(_, _, _)
RECURSIVE EchoList(_, _, _)
EchoList(r, pi, items) ==
    IF items = <<>> THEN r
    ELSE LET e == Echo(r.ns, pi, Head(items)) IN
         EchoList([ns |-> e.ns, ins |-> r.ins \o e.ins], pi, Tail(items))

\* Echo that inserts a Document as it inserts any other node.
Echo_Mut(ns, pi, value) ==
    LET parent == ns[pi].parent
        index == IndexOf(ns[parent].child, pi) - 1
    IN IF value.type = "str"
       THEN LET text == Len(ns) + 1 IN
            [ns |-> InsertBefore(Append(ns, Node("Text", "#text", <<>>, <<value.data>>)),
                                 parent, index, text),
             ins |-> <<text>>]
       ELSE IF value.type = "node"
       THEN [ns |-> InsertBefore(ns, parent, index, value.id), ins |-> <<value.id>>]
       ELSE EchoList([ns |-> ns, ins |-> <<>>], pi, value.items)

Echo(ns, pi, value) ==
    LET parent == ns[pi].parent
        index == IndexOf(ns[parent].child, pi) - 1
    IN IF value.type = "str"
       THEN LET text == Len(ns) + 1 IN
            [ns |-> InsertBefore(Append(ns, Node("Text", "#text", <<>>, <<value.data>>)),
                                 parent, index, text),
             ins |-> <<text>>]
       ELSE IF value.type = "node"
       THEN IF ns[value.id].name = "#document"
            THEN [ns |-> ExtendBefore(ns, parent, index, value.id),
                  ins |-> ns[value.id].child]
            ELSE [ns |-> InsertBefore(ns, parent, index, value.id),
                  ins |-> <<value.id>>]
       ELSE EchoList([ns |-> ns, ins |-> <<>>], pi, value.items)

\* The length of an embedded script, and the number of exec_python calls a
\* style makes on the outer document.
MaxScript == 2

MaxExecs == 2

\* What embedded code does: calls of echo and include, and raising.
\* echo: a string, a node, a Document, a list of a string and a node.
\* include: '/f.xml' adopted, '/f.xml' with adopt=False, 'f.xml' relative to
\* the calling document, and '/f.xml' with convert_to where the file holds no
\* PI, a PI its style executes from pre_link, a PI its style executes from
\* its convert() hook.
Statements ==
    { [op |-> "echo", arg |-> v] : v \in {"str", "node", "document", "list"} }
    \cup { [op |-> "include", arg |-> v] :
             v \in {"adopt", "insert", "relative", "convert", "convert_link",
                    "convert_final"} }
    \cup { [op |-> "raise", arg |-> ""] }

\* What the PI of an included file does, and the length of its script.
NestedStatements == { [op |-> "echo", arg |-> "str"], [op |-> "raise", arg |-> ""] }

MaxNested == 1

\* What the parser handed to exec_python makes of the captured output:
\* nothing, a Text node, a Text node and a message in its log.
ParseOutcomes == {"none", "text", "warn"}

\* The parser may also raise while it parses the captured output.
ParseResults == ParseOutcomes \cup {"raises"}

\* An exec_python call left by the IndexError of line 692: both stacks were
\* popped, and the converter then on top of include.converter has no document.
Unbound(f, depth, exit, out) ==
    [conv |-> f.conv, node |-> f.node, depth |-> depth, returned |-> FALSE,
     entry |-> f.entry, exit |-> exit, at |-> 692,
     stdout |-> <<f.original_stdout, out>>]

OutputTrees(parse) ==
    IF parse = "none" THEN <<>>
    ELSE << [node |-> Node("Text", "#text", <<>>, <<"o">>), kids |-> <<>>] >>

ParserMessage(code) ==
    [module |-> "parser", code |-> code, node_id |-> None, uri |-> "text",
     arg |-> <<>>]

ParserLog(parse) ==
    IF parse = "warn"
    THEN [msgs |-> << ParserMessage("P001"), ParserMessage("P002") >>,
          modules |-> {"parser"}]
    ELSE [msgs |-> <<>>, modules |-> {}]

\* The file '/f.xml' as its parser reads it, and the log of that parser.
FileTrees(variant) ==
    (IF variant \in {"convert_link", "convert_final"}
     THEN << [node |-> Node("ProcessingInstruction", "python", <<>>, <<"code">>),
              kids |-> <<>>] >>
     ELSE <<>>)
    \o << [node |-> Node("Element", "f", <<>>, <<>>), kids |-> <<>>] >>

FileLog == [msgs |-> << ParserMessage("F001") >>, modules |-> {"parser"}]

\* The converters: the outer one, then those include() created.
Convs == << [doc |-> doc, log |-> log] >> \o inner

\* self.__module__
Module == "lexor.core.converter"

\* The uri_ of the document on top of the doc stack of a converter.
DocUri(c) == << "uri", Convs[c].doc[Len(Convs[c].doc)] >>

\* The top frame: the exec_python call that is running.
Running == frames[Len(frames)]

\* get_current_node that returns the bottom of the stack.
GetCurrentNode_Mut == current[1]

\* get_current_node()
GetCurrentNode == current[Len(current)]

\* The variables of the converter that embedded execution leaves alone.
stylevars == <<inst, nc, node_converter, reload, repository, tolang, indoc, pc,
               crt, crtcopy, direction, doccopy, ret, status, error, ncalls,
               calls, matched, visits, regcall>>

convvars == <<stylevars, threads>>

\* None as the value of __FILE__ and __DIR__.
NoPath == <<>>

\* The namespace with __FILE__ and __DIR__ taken from the document d and
\* __NODE__ bound to node: lines 663-665 and 692-695.
Bound(d, node) ==
    [k \in {"__FILE__", "__DIR__", "__NODE__"} |->
        IF k = "__FILE__" THEN <<"realpath", d>>
        ELSE IF k = "__DIR__" THEN <<"dirname", d>>
        ELSE <<"node", node>>]

\* The namespace with the three names set to None: lines 697-699.
Cleared ==
    [k \in {"__FILE__", "__DIR__", "__NODE__"} |->
        IF k = "__NODE__" THEN <<"node", None>> ELSE NoPath]

\* Rebind that clears the three names whatever is left on the stacks.
Rebind_Mut(cur, stack, cs) == Cleared

\* Lines 691-699, after both stacks were popped: the three names are bound
\* to what is on top of the stacks, or set to None if include.converter is
\* empty.
Rebind(cur, stack, cs) ==
    IF stack # <<>>
    THEN Bound(cs[stack[Len(stack)]].doc[Len(cs[stack[Len(stack)]].doc)],
               cur[Len(cur)])
    ELSE Cleared

\* An exec_python call that got past its prologue: the converter, the PI,
\* the statements its embedded code may hold and how many, the statements
\* executed so far, and, as history, the stacks on entry, the children of the
\* parent of the PI on entry, the nodes the helpers put before the PI and the
\* include calls made.  The arguments error and parser are read when the
\* embedded code is over.
Frame(ns, c, node, may, limit, entry) ==
    [conv |-> c, node |-> node, may |-> may, limit |-> limit, script |-> <<>>,
     raised |-> FALSE, wait |-> <<>>, entry |-> entry,
     parent |-> ns[node].parent, before |-> ns[ns[node].parent].child,
     inserted |-> <<>>, includes |-> <<>>, original_stdout |-> stdout]

\* An exec_python call that left by an exception before the embedded code
\* ran, at line 663.
Aborted(c, node, entry, exit, depth) ==
    [conv |-> c, node |-> node, depth |-> depth, returned |-> FALSE,
     entry |-> entry, exit |-> exit, at |-> 663, stdout |-> <<stdout, stdout>>]

\* An exec_python call that left by the exception parser.parse(text) raised,
\* at line 682, with the stacks and sys.stdout as they were then.
Failed(f, depth, exit, out) ==
    [conv |-> f.conv, node |-> f.node, depth |-> depth, returned |-> FALSE,
     entry |-> f.entry, exit |-> exit, at |-> 682,
     stdout |-> <<f.original_stdout, out>>]

SetConvs(cs) ==
    /\ doc' = cs[1].doc
    /\ log' = cs[1].log
    /\ inner' = Tail(cs)

\* The embedded code has executed a statement, which raised or did not.
Advance(f, stmt, raised) ==
    [f EXCEPT !.script = Append(@, stmt), !.raised = raised]

\* The embedded code of the running exec_python call executes stmt next.
Runs(stmt) ==
    /\ frames # <<>>
    /\ frames[Len(frames)].wait = <<>>
    /\ ~frames[Len(frames)].raised
    /\ Len(frames[Len(frames)].script) < frames[Len(frames)].limit
    /\ stmt \in frames[Len(frames)].may

\* The documents a style runs embedded code on: a and b are elements.
ExecLayouts ==
    { <<"pi">>, <<"pi", "b">>, <<"a", "pi">>, <<"a", "pi", "b">> }

LayoutTrees(layout) ==
    [i \in 1..Len(layout) |->
        [node |-> IF layout[i] = "pi"
                  THEN Node("ProcessingInstruction", "python", <<>>, <<"code">>)
                  ELSE Node("Element", layout[i], <<>>, <<>>),
         kids |-> <<>>]]

\* A converter inside convert(), in a hook of its style: its log document is
\* pushed; the PIs are in the document the hook works on, which is the output
\* document on top of the doc stack, or, before the final walk of the first
\* convert(), the compiled copy while the doc stack is empty.
InitExec ==
    /\ \E layout \in ExecLayouts : nodes = Parse(<<>>, LayoutTrees(layout)).ns
    /\ doc \in { <<>>, <<1>> }
    /\ log = << [msgs |-> <<>>, modules |-> {}] >>
    /\ inst = <<>>
    /\ nc = <<>>
    /\ node_converter = <<>>
    /\ reload = FALSE
    /\ repository = <<>>
    /\ tolang = "xml"
    /\ indoc = 1
    /\ pc = "hook"
    /\ crt = None
    /\ crtcopy = None
    /\ direction = ""
    /\ doccopy = None
    /\ ret = None
    /\ status = ""
    /\ error = <<>>
    /\ ncalls = 1
    /\ calls = <<>>
    /\ matched = <<>>
    /\ visits = <<>>
    /\ regcall = <<>>
    /\ InitGlobals

\* exec_python(node, id_num, parser, error) called by a hook of the style on
\* a <?python ...?> node, lines 655-667: both stacks are pushed, then the uri
\* of self.doc[-1] is read.  A PI that is executed again, after a call that
\* failed, holds a script as short as that of an included file.
ExecPython ==
    /\ pc = "hook"
    /\ frames = <<>>
    /\ Len(execs) < MaxExecs
    /\ \E node \in Descendants(nodes, indoc) :
         /\ nodes[node].kind = "ProcessingInstruction"
         /\ nodes[node].name = "python"
         /\ current' = Append(current, node)
         /\ converter' = Append(converter, 1)
         /\ IF doc = <<>>
            THEN /\ execs' = Append(execs, Aborted(1, node, <<current, converter>>,
                                                   <<current', converter'>>, 1))
                 /\ frames' = frames
                 /\ namespace' = namespace
                 /\ stdout' = stdout
            ELSE /\ frames' = << IF execs = <<>>
                                 THEN Frame(nodes, 1, node, Statements, MaxScript,
                                            <<current, converter>>)
                                 ELSE Frame(nodes, 1, node, NestedStatements, MaxNested,
                                            <<current, converter>>) >>
                 /\ execs' = execs
                 /\ namespace' = Bound(doc[Len(doc)], node)
                 /\ stdout' = node
    /\ UNCHANGED <<nodes, doc, log, inner, convvars>>

\* The values the embedded code builds for echo: PI('!--', 'c') and a
\* Document holding an element.
EchoArgument(ns, arg) ==
    LET id == Len(ns) + 1
        comment == Node("ProcessingInstruction", "!--", <<>>, <<"c">>)
        document == Parse(ns, << [node |-> Node("Element", "i", <<>>, <<>>),
                                  kids |-> <<>>] >>)
    IN IF arg = "str" THEN [ns |-> ns, value |-> [type |-> "str", data |-> "A"]]
       ELSE IF arg = "node"
       THEN [ns |-> Append(ns, comment), value |-> [type |-> "node", id |-> id]]
       ELSE IF arg = "document"
       THEN [ns |-> document.ns, value |-> [type |-> "node", id |-> document.id]]
       ELSE [ns |-> Append(ns, comment),
             value |-> [type |-> "list",
                        items |-> << [type |-> "str", data |-> "A"],
                                     [type |-> "node", id |-> id] >>]]

\* The embedded code calls echo.
EchoStep ==
    /\ \E stmt \in Statements :
         /\ stmt.op = "echo"
         /\ Runs(stmt)
         /\ LET a == EchoArgument(nodes, stmt.arg)
                e == Echo(a.ns, GetCurrentNode, a.value)
            IN /\ nodes' = e.ns
               /\ frames' = [frames EXCEPT ![Len(frames)] =
                                [Advance(@, stmt, FALSE) EXCEPT
                                    !.inserted = @ \o e.ins]]
    /\ UNCHANGED <<doc, log, inner, current, converter, execs, namespace, stdout, convvars>>

\* The embedded code raises.
RaiseStep ==
    /\ \E stmt \in Statements :
         /\ stmt.op = "raise"
         /\ Runs(stmt)
         /\ frames' = [frames EXCEPT ![Len(frames)] = Advance(@, stmt, TRUE)]
    /\ UNCHANGED <<nodes, doc, log, inner, current, converter, execs, namespace, stdout,
                   convvars>>

\* One include() call as the history keeps it.
Included(variant, completed) == [variant |-> variant, completed |-> completed]

\* The embedded code calls include(), lines 762-799, and for a call without
\* convert_to lines 804-808 too.  With convert_to a converter is created
\* and its convert() runs: its style changes no node, and executes the PI of
\* the file, if there is one, from a pre_link hook or from its convert() hook.
IncludeStep ==
    /\ \E stmt \in Statements :
      /\ stmt.op = "include"
      /\ Runs(stmt)
      /\ LET f == Running
           v == stmt.arg
           parent_converter == converter[Len(converter)]
           parsed == Parse(nodes, FileTrees(v))
           merged == UpdateLog(Convs[parent_converter].log, LogArgument(FileLog))
           cs1 == [Convs EXCEPT ![parent_converter].log = merged.log]
           pi == GetCurrentNode
           index == IndexOf(parsed.ns[parsed.ns[pi].parent].child, pi) - 1
           nid == Len(Convs) + 1
           newlog == << [msgs |-> <<>>, modules |-> {}] >>
           copy == DeepClone(parsed.ns, parsed.id)
           out == DeepClone(copy.ns, parsed.id)
       IN IF v = "relative"
          THEN /\ frames' = [frames EXCEPT ![Len(frames)] =
                               [Advance(f, stmt, TRUE) EXCEPT
                                   !.includes = Append(@, Included(v, FALSE))]]
               /\ UNCHANGED <<nodes, doc, log, inner, current, converter, execs,
                              namespace, stdout>>
          ELSE IF v \in {"adopt", "insert"}
          THEN /\ nodes' = IF v = "adopt"
                           THEN ExtendBefore(parsed.ns, parsed.ns[pi].parent, index,
                                             parsed.id)
                           ELSE InsertBefore(parsed.ns, parsed.ns[pi].parent, index,
                                             parsed.id)
               /\ frames' = [frames EXCEPT ![Len(frames)] =
                               [Advance(f, stmt, FALSE) EXCEPT
                                   !.inserted = @ \o (IF v = "adopt"
                                                      THEN parsed.ns[parsed.id].child
                                                      ELSE <<parsed.id>>),
                                   !.includes = Append(@, Included(v, TRUE))]]
               /\ SetConvs(cs1)
               /\ UNCHANGED <<current, converter, execs, namespace, stdout>>
          ELSE IF v = "convert_link"
          THEN LET node == copy.ns[copy.id].child[1] IN
               /\ nodes' = copy.ns
               /\ SetConvs(Append(cs1, [doc |-> <<>>, log |-> newlog]))
               /\ current' = Append(current, node)
               /\ converter' = Append(converter, nid)
               /\ execs' = Append(execs, Aborted(nid, node, <<current, converter>>,
                                                 <<current', converter'>>,
                                                 Len(frames) + 1))
               /\ namespace' = namespace
               /\ stdout' = stdout
               /\ frames' = [frames EXCEPT ![Len(frames)] =
                               [Advance(f, stmt, TRUE) EXCEPT
                                   !.includes = Append(@, Included(v, FALSE))]]
          ELSE /\ nodes' = out.ns
               /\ SetConvs(Append(cs1, [doc |-> <<out.id>>, log |-> newlog]))
               /\ execs' = execs
               /\ LET waiting == [f EXCEPT !.wait = [conv |-> nid, stmt |-> stmt]]
                      node == out.ns[out.id].child[1]
                  IN IF v = "convert"
                     THEN /\ frames' = [frames EXCEPT ![Len(frames)] = waiting]
                          /\ UNCHANGED <<current, converter, namespace, stdout>>
                     ELSE /\ current' = Append(current, node)
                          /\ converter' = Append(converter, nid)
                          /\ namespace' = Bound(out.id, node)
                          /\ stdout' = node
                          /\ frames' = Append(
                                 [frames EXCEPT ![Len(frames)] = waiting],
                                 Frame(out.ns, nid, node, NestedStatements,
                                       MaxNested, <<current, converter>>))
    /\ UNCHANGED convvars

\* The convert() of the converter include() made returns, and include() goes
\* on, lines 800-808: converter.log is handed to update_log of the calling
\* converter, then the converted document is put before the PI.
IncludeResume ==
    /\ frames # <<>>
    /\ Running.wait # <<>>
    /\ LET f == Running
           made == Convs[f.wait.conv]
           document == made.doc[Len(made.doc)]
           parent_converter == converter[Len(converter)]
           ns1 == [nodes EXCEPT ![document].lang = "y", ![document].style = "default"]
           merged == IF made.log # <<>>
                     THEN UpdateLog(Convs[parent_converter].log, ListArgument(made.log))
                     ELSE [log |-> Convs[parent_converter].log, err |-> ""]
           pi == GetCurrentNode
           index == IndexOf(ns1[ns1[pi].parent].child, pi) - 1
           done == [f EXCEPT !.wait = <<>>]
       IN IF merged.err # ""
          THEN /\ nodes' = ns1
               /\ frames' = [frames EXCEPT ![Len(frames)] =
                               [Advance(done, f.wait.stmt, TRUE) EXCEPT
                                   !.includes = Append(@, Included(f.wait.stmt.arg, FALSE))]]
               /\ UNCHANGED <<doc, log, inner>>
          ELSE /\ nodes' = ExtendBefore(ns1, ns1[pi].parent, index, document)
               /\ frames' = [frames EXCEPT ![Len(frames)] =
                               [Advance(done, f.wait.stmt, FALSE) EXCEPT
                                   !.inserted = @ \o ns1[document].child,
                                   !.includes = Append(@, Included(f.wait.stmt.arg, TRUE))]]
               /\ SetConvs([Convs EXCEPT ![parent_converter].log = merged.log])
    /\ UNCHANGED <<current, converter, execs, namespace, stdout, convvars>>

\* The number of messages of a log document with a code, about a node.
CountMsgs(logdoc, code, node) ==
    Cardinality({ i \in 1..Len(logdoc.msgs) :
                    logdoc.msgs[i].code = code /\ logdoc.msgs[i].node_id = node })

\* The embedded code is over, by its end or by an exception: exec_python
\* lines 670-700.  If parser.parse raises at line 682, sys.stdout is restored
\* and the exception leaves exec_python: into the embedded code that called
\* include() for a nested call, out of the hook for the outer one.  So does
\* the IndexError of line 692, when the converter left on top of
\* include.converter has an empty doc stack.  Otherwise:
\* E100 and the error element if it raised; the captured
\* output is parsed and put before the PI; the PI is removed; the parser's
\* messages are taken between W101 and W102; both stacks are popped and the
\* namespace is bound to what is left on them.
ExecReturn ==
    /\ frames # <<>>
    /\ Running.wait = <<>>
    /\ \E flag \in BOOLEAN, parse \in ParseResults :
       LET f == Running
           c == f.conv
           pi == f.node
           parent == nodes[pi].parent
           uri == DocUri(c)
           st0 == [ns |-> nodes, log |-> Convs[c].log]
           st1 == IF f.raised THEN Msg(st0, Module, "E100", pi, <<1>>, uri) ELSE st0
           err_node == Len(st1.ns) + 1
           withcdata ==
               AppendChild(
                   Append(Append(st1.ns,
                                 Node("Element", "python_pi_error",
                                      << <<"section", "1">> >>, <<>>)),
                          Node("CData", "#cdata-section", <<>>, <<"traceback">>)),
                   err_node, err_node + 1)
           shown == f.raised /\ flag
           ns2 == IF shown
                  THEN InsertBefore(withcdata, parent,
                                    IndexOf(withcdata[parent].child, pi) - 1, err_node)
                  ELSE st1.ns
           parsed == Parse(ns2, OutputTrees(parse))
           out == parsed.ns[parsed.id].child
           ns3 == ExtendBefore(parsed.ns, parent,
                               IndexOf(parsed.ns[parent].child, pi) - 1, parsed.id)
           at == IndexOf(ns3[parent].child, pi)
           removed == RemoveNode(ns3, pi)
           st2 == [ns |-> removed.ns, log |-> st1.log]
           took == TakeParserLog(st2, ParserLog(parse), pi, uri)
           st5 == took.st
           top == st5.log[Len(st5.log)]
           caller == frames[Len(frames) - 1]
           caught == [Advance([caller EXCEPT !.wait = <<>>], caller.wait.stmt, TRUE)
                         EXCEPT !.includes = Append(@, Included(caller.wait.stmt.arg, FALSE))]
       IN IF parse = "raises"
          THEN /\ nodes' = ns2
               /\ SetConvs([Convs EXCEPT ![c].log = st1.log])
               /\ stdout' = f.original_stdout
               /\ UNCHANGED <<current, converter, namespace>>
               /\ frames' = IF Len(frames) = 1 THEN <<>>
                             ELSE Append(SubSeq(frames, 1, Len(frames) - 2), caught)
               /\ execs' = Append(execs, Failed(f, Len(frames), <<current, converter>>,
                                                stdout'))
          ELSE IF /\ Len(converter) > 1
                  /\ Convs[converter[Len(converter) - 1]].doc = <<>>
          THEN /\ nodes' = st5.ns
               /\ SetConvs([Convs EXCEPT ![c].log = st5.log])
               /\ current' = SubSeq(current, 1, Len(current) - 1)
               /\ converter' = SubSeq(converter, 1, Len(converter) - 1)
               /\ stdout' = f.original_stdout
               /\ namespace' = namespace
               /\ frames' = IF Len(frames) = 1 THEN <<>>
                             ELSE Append(SubSeq(frames, 1, Len(frames) - 2), caught)
               /\ execs' = Append(execs, Unbound(f, Len(frames), <<current', converter'>>,
                                                 stdout'))
          ELSE
          /\ nodes' = st5.ns
          /\ SetConvs([Convs EXCEPT ![c].log = st5.log])
          /\ current' = SubSeq(current, 1, Len(current) - 1)
          /\ converter' = SubSeq(converter, 1, Len(converter) - 1)
          /\ namespace' = Rebind(current', converter', Convs)
          /\ stdout' = f.original_stdout
          /\ frames' = SubSeq(frames, 1, Len(frames) - 1)
          /\ execs' = Append(execs,
                 [conv |-> c, node |-> pi, depth |-> Len(frames), returned |-> TRUE,
                  entry |-> f.entry, exit |-> <<current', converter'>>,
                  error |-> flag, raised |-> f.raised, parse |-> parse, script |-> f.script,
                  parent |-> parent, before |-> f.before, inserted |-> f.inserted,
                  errnode |-> IF shown THEN <<err_node>> ELSE <<>>,
                  out |-> out,
                  prev |-> IF at > 1 THEN <<ns3[parent].child[at - 1]>> ELSE <<>>,
                  next |-> IF at < Len(ns3[parent].child)
                           THEN <<ns3[parent].child[at + 1]>> ELSE <<>>,
                  newnode |-> removed.newnode,
                  after |-> st5.ns[parent].child,
                  includes |-> f.includes,
                  e100 |-> CountMsgs(top, "E100", pi),
                  logged |-> top.msgs,
                  bound |-> namespace',
                  parserlog |-> took.plog.msgs,
                  logged0 |-> Convs[c].log[Len(Convs[c].log)].msgs])
    /\ UNCHANGED convvars

NextExec ==
    \/ ExecPython
    \/ EchoStep
    \/ RaiseStep
    \/ IncludeStep
    \/ IncludeResume
    \/ ExecReturn

SpecExec == InitExec /\ [][NextExec]_vars

\* C12: every exec_python call that returned left the current-node stack and
\* the converter stack as they were when it was entered, at any depth of
\* nesting and whether or not its embedded code raised.
C12_StacksRestored ==
    \A i \in 1..Len(execs) :
        execs[i].returned => execs[i].exit = execs[i].entry

\* The children of the parent of the PI before it, when exec_python was entered.
Preceding(e) == SubSeq(e.before, 1, IndexOf(e.before, e.node) - 1)

\* The children of the parent of the PI after it, when exec_python was entered.
Following(e) == SubSeq(e.before, IndexOf(e.before, e.node) + 1, Len(e.before))

\* C13: an exec_python call whose embedded code raised has returned with
\* exactly one E100 message about the PI put by it in the log of its converter, the
\* PI out of the tree, and a python_pi_error element holding a CData node
\* where the PI was, after what the helpers put there and before the parsed
\* output, if and only if error is true.
C13_RaiseHandled ==
    \A i \in 1..Len(execs) :
        (execs[i].returned /\ execs[i].raised) =>
            LET e == execs[i]
                k == Len(Preceding(e)) + Len(e.inserted) + 1
                said == SubSeq(e.logged, Len(e.logged0) + 1, Len(e.logged))
            IN /\ Len(SelectSeq(said, LAMBDA m : m.code = "E100" /\ m.node_id = e.node)) = 1
               /\ \A j \in 1..Len(e.after) : e.after[j] # e.node
               /\ nodes[e.node].parent = None
               /\ (e.errnode # <<>>) <=> e.error
               /\ e.error =>
                     /\ Len(e.after) >= k
                     /\ e.after[k] = e.errnode[1]
                     /\ nodes[e.after[k]].name = "python_pi_error"
                     /\ Len(nodes[e.after[k]].child) = 1
                     /\ nodes[nodes[e.after[k]].child[1]].kind = "CData"
               /\ ~e.error =>
                     \A j \in 1..Len(e.after) :
                         \/ nodes[e.after[j]].name # "python_pi_error"
                         \/ \E b \in 1..Len(e.before) : e.before[b] = e.after[j]

\* Embedded code that echoed and then raised, with error true and output.
C13_Witness ==
    \E i \in 1..Len(execs) :
        /\ execs[i].returned
        /\ execs[i].raised
        /\ execs[i].error
        /\ execs[i].inserted # <<>>
        /\ execs[i].out # <<>>
        /\ Preceding(execs[i]) # <<>>

\* What a node is: its kind, its name and its data.
Told(n) == <<nodes[n].kind, nodes[n].name, nodes[n].data>>

\* The nodes an echo statement is to leave before the PI, in order.
EchoShapes(arg) ==
    LET text == << <<"Text", "#text", <<"A">>>> >>
        comment == << <<"ProcessingInstruction", "!--", <<"c">>>> >>
    IN IF arg = "str" THEN text
       ELSE IF arg = "node" THEN comment
       ELSE IF arg = "document" THEN << <<"Element", "i", <<>>>> >>
       ELSE text \o comment

RECURSIVE Echoed(_)
Echoed(script) ==
    IF script = <<>> THEN <<>>
    ELSE EchoShapes(Head(script).arg) \o Echoed(Tail(script))

\* C14: after an exec_python call whose embedded code made only echo calls,
\* the children of the parent of the PI are those that preceded the PI, then
\* the echoed nodes in the order of the calls (a string as a Text node, a
\* Document as its children, a list element by element), then the parsed
\* output, then those that followed the PI (and the empty Text node that
\* remove_node appends when nothing is left before the PI); the PI is no
\* longer in the tree.
C14_EchoOrder ==
    \A i \in 1..Len(execs) :
        (/\ execs[i].returned
         /\ \A j \in 1..Len(execs[i].script) : execs[i].script[j].op = "echo") =>
            LET e == execs[i]
                put == Echoed(e.script)
                a == Len(Preceding(e))
                b == a + Len(put)
                c == b + Len(e.out)
                d == c + Len(Following(e))
            IN /\ Len(e.after) = IF c = 0 THEN d + 1 ELSE d
               /\ SubSeq(e.after, 1, a) = Preceding(e)
               /\ \A j \in 1..Len(put) : Told(e.after[a + j]) = put[j]
               /\ SubSeq(e.after, b + 1, c) = e.out
               /\ \A j \in b + 1..c : Told(e.after[j]) = <<"Text", "#text", <<"o">>>>
               /\ (e.parse # "none") <=> (e.out # <<>>)
               /\ SubSeq(e.after, c + 1, d) = Following(e)
               /\ c = 0 => Told(e.after[d + 1]) = <<"Text", "#text", <<>>>>
               /\ \A j \in 1..Len(e.after) : e.after[j] # e.node
               /\ nodes[e.node].parent = None

\* A list and then a Document were echoed by a PI between two elements, and
\* there was output.
C14_Witness ==
    \E i \in 1..Len(execs) :
        /\ execs[i].returned
        /\ execs[i].script = << [op |-> "echo", arg |-> "list"],
                                [op |-> "echo", arg |-> "document"] >>
        /\ execs[i].out # <<>>
        /\ Preceding(execs[i]) # <<>>
        /\ Following(execs[i]) # <<>>

\* C15: the remove_node call of exec_python took the PI out of its parent
\* and handed back the previous sibling of the PI when it had one, and an
\* empty Text node when it had none, whether or not siblings followed it.
C15_RemoveNode ==
    \A i \in 1..Len(execs) :
        execs[i].returned =>
            /\ \A j \in 1..Len(execs[i].after) : execs[i].after[j] # execs[i].node
            /\ execs[i].prev # <<>> => execs[i].newnode = execs[i].prev[1]
            /\ execs[i].prev = <<>> =>
                  Told(execs[i].newnode) = <<"Text", "#text", <<>>>>

\* C16: every include() call with convert_to whose nested convert() returned
\* has completed: it raised nothing, the children of the converted document
\* are before the PI, and the message of the parser of the file is in the
\* log of the calling converter.
C16_IncludeConverts ==
    \A i \in 1..Len(execs) :
        execs[i].returned =>
            \A j \in 1..Len(execs[i].includes) :
                execs[i].includes[j].variant \in {"convert", "convert_final"} =>
                    /\ execs[i].includes[j].completed
                    /\ ~execs[i].raised
                    /\ \E k \in 1..Len(execs[i].after) :
                          Told(execs[i].after[k]) = <<"Element", "f", <<>>>>
                    /\ \E k \in 1..Len(execs[i].logged) :
                          execs[i].logged[k].code = "F001"

\* The messages of a are messages of b, in the same relative order.
RECURSIVE IsSubSeq(_, _)
IsSubSeq(a, b) ==
    IF a = <<>> THEN TRUE
    ELSE IF b = <<>> THEN FALSE
    ELSE IF Head(a) = Head(b) THEN IsSubSeq(Tail(a), Tail(b))
    ELSE IsSubSeq(a, Tail(b))

\* The codes of the messages of a log document, in order.
Codes(msgs) == [k \in 1..Len(msgs) |-> msgs[k].code]

C18_Step ==
    /\ Len(log') >= Len(log)
    /\ \A d \in 1..Len(log) :
          /\ Len(log'[d].msgs) >= Len(log[d].msgs)
          /\ IsSubSeq(log[d].msgs, log'[d].msgs)
    /\ Len(inner') >= Len(inner)
    /\ \A c \in 1..Len(inner) :
          /\ Len(inner'[c].log) >= Len(inner[c].log)
          /\ \A d \in 1..Len(inner[c].log) :
                /\ Len(inner'[c].log[d].msgs) >= Len(inner[c].log[d].msgs)
                /\ IsSubSeq(inner[c].log[d].msgs, inner'[c].log[d].msgs)

\* C18: no step of a conversion running embedded code takes a message out
\* of a log document of a converter or changes the relative order of the
\* messages it holds: msg and update_log only add messages.
C18_LogGrows == [][C18_Step]_vars

\* A log that took the messages of an included file, then E100, then the
\* messages of the output parser between W101 and W102.
C18_Witness ==
    \E i \in 1..Len(execs) :
        /\ execs[i].returned
        /\ execs[i].conv = 1
        /\ Codes(execs[i].logged) = <<"F001", "E100", "W101", "P001", "P002", "W102">>
        /\ Codes(log[Len(log)].msgs) = Codes(execs[i].logged)

\* ---------------------------------------------------------- the final walk
\* C21: when convert() has returned, every node of the output document that
\* has a directive of its name, with or without children, got start once and
\* end once, start before end; start on it came before start on every node
\* below it, and end on it after end on every node below it.
C21_StartEnd ==
    Returned =>
        \A n \in Descendants(nodes, Output) :
            (n # Output /\ nodes[n].name \in DOMAIN nc) =>
                /\ Cardinality(CallsAt("start", n)) = 1
                /\ Cardinality(CallsAt("end", n)) = 1
                /\ \A i \in CallsAt("start", n), j \in CallsAt("end", n) : i < j
                /\ \A m \in Descendants(nodes, n) \ {n} :
                      /\ \A i \in CallsAt("start", n), j \in CallsAt("start", m) : i < j
                      /\ \A i \in CallsAt("end", m), j \in CallsAt("end", n) : i < j

\* The tree the final walk is to make of an input node: the children are
\* left out if the directive of its name has copy_children=false, and a child
\* is left out if the directive of its name has copy=false.
RECURSIVE Copied(_)
Copied(n) ==
    LET keep == IF CopyChildren(nodes, inst, nc, n)
                THEN SelectSeq(nodes[n].child, LAMBDA c : Copy(nodes, inst, nc, c))
                ELSE <<>>
    IN [kind |-> nodes[n].kind, name |-> nodes[n].name, attrs |-> nodes[n].attrs,
        data |-> nodes[n].data, kids |-> [i \in 1..Len(keep) |-> Copied(keep[i])]]

\* The input node is left out by copy=false, or has children that are left
\* out by copy_children=false.
Suppressed(n) ==
    \/ ~Copy(nodes, inst, nc, n)
    \/ nodes[n].child # <<>> /\ ~CopyChildren(nodes, inst, nc, n)

\* C22: when a node of the input (here a document of elements only) has a
\* directive with copy=false or copy_children=false, the final walk does not
\* fail, and the output is the input without the nodes with copy=false,
\* without the descendants of the nodes with copy_children=false and
\* without what is below either, every other node under the clone of its
\* own parent in the original order.
C22_CopyFlags ==
    (/\ ~reload
     /\ \A n \in Descendants(nodes, indoc) : n = indoc \/ IsElement(nodes[n])
     /\ \E n \in Descendants(nodes, indoc) : n # indoc /\ Suppressed(n))
        => /\ ~(status = "raised" /\ error[1] = "final")
           /\ Returned => Shape(nodes, Output) = Copied(indoc)

\* The first directive of the list the matcher gives for an input node, the
\* one of top priority, has copy_children=false.
TopSuppresses(n) ==
    LET m == GetNodeDirectives(inst, nc, nodes[n]).directives IN
    m # <<>> /\ ~inst[nc[m[1][1]]].copy_children

\* C23: when the compile walk is over and no node was removed, the clone of
\* an input node that has children has children itself, that is the walk
\* went down from it, if and only if the top-priority directive matched on
\* the node, by its name or by an attribute, does not have
\* copy_children=false; a directive that does not match the node has no say.
C23_Descent ==
    (/\ pc = "compiled"
     /\ \A n \in Descendants(nodes, indoc) : n = indoc \/ ~Removed(n)) =>
        \A c \in Descendants(nodes, doccopy) \ {doccopy} :
            nodes[nodes[c].src].child # <<>> =>
                (nodes[c].child # <<>> <=> ~TopSuppresses(nodes[c].src))

\* C24: a pre_link hook that sends a message without a uri does not make
\* convert() fail, in the first convert() call of a converter as in a later
\* one, and the message it leaves in the log has the uri of the document on
\* top of the doc stack.
C24_DefaultUri ==
    /\ ~(status = "raised" /\ error = <<"link", "IndexError">>)
    /\ \A k \in 1..Len(log) : \A i \in 1..Len(log[k].msgs) :
          log[k].msgs[i].code = "N002" =>
              doc # <<>> /\ log[k].msgs[i].uri = <<"uri", doc[Len(doc)]>>

\* The namespace as bound for the converter cnv running the PI node.
BoundFor(cnv, node) == Bound(Convs[cnv].doc[Len(Convs[cnv].doc)], node)

\* C25: while the embedded code of a PI executes, __NODE__ is that PI, which
\* is the top of the current-node stack, and __FILE__ and __DIR__ are those of
\* the document of its converter, also after a nested execution has returned;
\* every exec_python call that returned left the three names bound to what
\* the stacks held on top after its pops, and set to None if they were empty.
C25_Namespace ==
    /\ (frames # <<>> /\ ~Running.raised) =>
          /\ namespace["__NODE__"] = <<"node", Running.node>>
          /\ Running.node = GetCurrentNode
          /\ namespace = BoundFor(Running.conv, Running.node)
    /\ \A i \in 1..Len(execs) :
          execs[i].returned =>
             LET e == execs[i] IN
             IF e.exit[2] = <<>> \/ e.exit[1] = <<>>
             THEN e.bound = Cleared /\ e.exit[2] = <<>>
             ELSE e.bound = BoundFor(e.exit[2][Len(e.exit[2])], e.exit[1][Len(e.exit[1])])

\* C25 witness: a nested execution has returned, the names are bound again to
\* the PI whose code called include(), and an execution that left the
\* stacks empty has set them to None.
C25_Witness ==
    /\ Len(execs) = 2
    /\ execs[1].returned /\ execs[1].depth = 2
    /\ execs[1].bound["__NODE__"] = <<"node", execs[2].node>>
    /\ execs[1].bound # Cleared
    /\ execs[2].returned /\ execs[2].depth = 1
    /\ execs[2].bound = Cleared
    /\ namespace = Cleared

\* The messages of msgs about the node with one of the codes.
About(msgs, node, codes) ==
    SelectSeq(msgs, LAMBDA m : m.code \in codes /\ m.node_id = node)

\* C26: an exec_python call whose parser had messages in its log returned
\* with one W101 about the PI, the messages of the parser in their order and
\* one W102 about the PI as the last messages of the log of its converter, next
\* to each other, and with the log of the parser empty; one whose parser had
\* none returned with no W101 and no W102 about the PI.
C26_Wrapped ==
    \A i \in 1..Len(execs) :
        execs[i].returned =>
            LET e == execs[i]
                had == ParserLog(e.parse).msgs
                n == Len(e.logged)
                k == Len(had)
            IN IF had # <<>>
               THEN /\ n >= k + 2
                    /\ e.logged[n - k - 1].code = "W101"
                    /\ e.logged[n - k - 1].node_id = e.node
                    /\ SubSeq(e.logged, n - k, n - 1) = had
                    /\ e.logged[n].code = "W102"
                    /\ e.logged[n].node_id = e.node
                    /\ Codes(About(e.logged, e.node, {"W101", "W102"})) = <<"W101", "W102">>
                    /\ n - k - 2 >= Len(e.logged0)
                    /\ SubSeq(e.logged, 1, Len(e.logged0)) = e.logged0
                    /\ \A j \in (Len(e.logged0) + 1)..(n - k - 2) :
                          e.logged[j].code = "E100" /\ e.logged[j].node_id = e.node
                    /\ e.parserlog = <<>>
               ELSE /\ About(e.logged, e.node, {"W101", "W102"}) = <<>>
                    /\ e.parserlog = <<>>

\* C26 witness: a call whose code had merged the log of an included file and
\* whose parser had two messages returned, and one whose parser had none.
C26_Witness ==
    /\ \E i \in 1..Len(execs) :
          /\ execs[i].returned
          /\ execs[i].parse = "warn"
          /\ execs[i].logged0 # <<>>
          /\ Len(execs[i].logged) >= Len(execs[i].logged0) + 4
          /\ Codes(SubSeq(execs[i].logged, Len(execs[i].logged) - 3, Len(execs[i].logged))) = <<"W101", "P001", "P002", "W102">>
    /\ \E i \in 1..Len(execs) :
          /\ execs[i].returned
          /\ execs[i].parse = "text"

\* ------------------------------------------------ concurrent conversions
\* A host runs two conversions at once, each in a thread of its own with a
\* converter and a document of its own; the style of each calls exec_python
\* on the PI of its document.  The threads share get_current_node.current,
\* include.converter and get_lexor_namespace.namespace, and the interpreter
\* switches threads between statements.
Threads == {1, 2}

\* How many times the embedded code of a PI calls echo.
MaxEchoes == 1

\* A thread: where it is in exec_python, its converter and PI, and, as
\* history, what each echo of its code got from get_current_node() and put
\* in the tree, and the node __NODE__ was bound to for its code.
Thread(c, node) ==
    [pc |-> "idle", conv |-> c, node |-> node, echoes |-> <<>>, raised |-> FALSE,
     bound |-> None, original_stdout |-> None, err |-> ""]

InitConc ==
    /\ LET first == Parse(<<>>, LayoutTrees(<<"a", "pi">>))
           second == Parse(first.ns, LayoutTrees(<<"a", "pi">>))
       IN /\ nodes = second.ns
          /\ doc = <<first.id>>
          /\ inner = << [doc |-> <<second.id>>,
                         log |-> << [msgs |-> <<>>, modules |-> {}] >>] >>
          /\ threads = << Thread(1, first.ns[first.id].child[2]),
                          Thread(2, second.ns[second.id].child[2]) >>
          /\ indoc = first.id
    /\ log = << [msgs |-> <<>>, modules |-> {}] >>
    /\ inst = <<>>
    /\ nc = <<>>
    /\ node_converter = <<>>
    /\ reload = FALSE
    /\ repository = <<>>
    /\ tolang = "xml"
    /\ pc = "hook"
    /\ crt = None
    /\ crtcopy = None
    /\ direction = ""
    /\ doccopy = None
    /\ ret = None
    /\ status = ""
    /\ error = <<>>
    /\ ncalls = 1
    /\ calls = <<>>
    /\ matched = <<>>
    /\ visits = <<>>
    /\ regcall = <<>>
    /\ current = <<>>
    /\ converter = <<>>
    /\ frames = <<>>
    /\ execs = <<>>
    /\ namespace = <<>>
    /\ stdout = None

\* The thread t goes to the statement at, or leaves exec_python by err.
Goes(t, at, err) ==
    [threads EXCEPT ![t].pc = IF err = "" THEN at ELSE "crashed", ![t].err = err]

\* Line 655: get_current_node.current.append(node).
ThreadPushNode ==
    /\ \E t \in Threads :
         /\ threads[t].pc = "idle"
         /\ current' = Append(current, threads[t].node)
         /\ threads' = Goes(t, "656", "")
    /\ UNCHANGED <<nodes, doc, log, inner, converter, namespace, stdout, frames, execs,
                   stylevars>>

\* Line 656: include.converter.append(self).
ThreadPushConverter ==
    /\ \E t \in Threads :
         /\ threads[t].pc = "656"
         /\ converter' = Append(converter, threads[t].conv)
         /\ threads' = Goes(t, "657", "")
    /\ UNCHANGED <<nodes, doc, log, inner, current, namespace, stdout, frames, execs,
                   stylevars>>

\* Lines 657-667: the three names are bound from the tops of the stacks.
ThreadBind ==
    /\ \E t \in Threads :
         /\ threads[t].pc = "657"
         /\ IF converter = <<>> \/ current = <<>>
            THEN /\ threads' = Goes(t, "", "IndexError")
                 /\ namespace' = namespace
                 /\ stdout' = stdout
            ELSE /\ namespace' = Rebind(current, converter, Convs)
                 /\ stdout' = threads[t].node
                 /\ threads' = [Goes(t, "exec", "") EXCEPT
                                   ![t].bound = GetCurrentNode,
                                   ![t].original_stdout = stdout]
    /\ UNCHANGED <<nodes, doc, log, inner, current, converter, frames, execs,
                   stylevars>>

\* An echo of the embedded code as the history keeps it: the node
\* get_current_node() returned, the current-node stack at that time, the
\* node put in the tree and the node it was put under.
Echoing(got, stack, text, parent) ==
    [got |-> got, stack |-> stack, text |-> text, parent |-> parent]

\* Line 668: the embedded code calls echo('A').  echo raises if the stack is
\* empty or if the node on top has no parent; the exception ends the code.
ThreadEcho ==
    /\ \E t \in Threads :
         /\ threads[t].pc = "exec"
         /\ ~threads[t].raised
         /\ Len(threads[t].echoes) < MaxEchoes
         /\ IF current = <<>> \/ nodes[GetCurrentNode].parent = None
            THEN /\ threads' = [threads EXCEPT ![t].raised = TRUE]
                 /\ nodes' = nodes
            ELSE LET e == Echo(nodes, GetCurrentNode, EchoArgument(nodes, "str").value)
                 IN /\ nodes' = e.ns
                    /\ threads' = [threads EXCEPT ![t].echoes =
                           Append(@, Echoing(GetCurrentNode, current, e.ins[1],
                                             e.ns[e.ins[1]].parent))]
    /\ UNCHANGED <<doc, log, inner, current, converter, namespace, stdout, frames, execs,
                   stylevars>>

\* Lines 669-684 with error false and a parser that finds nothing in the
\* captured output: E100 if the code raised, and the PI is removed.
ThreadFinish ==
    /\ \E t \in Threads :
         /\ threads[t].pc = "exec"
         /\ LET c == threads[t].conv
                st0 == [ns |-> nodes, log |-> Convs[c].log]
                st1 == IF threads[t].raised
                       THEN Msg(st0, Module, "E100", threads[t].node, <<1>>, DocUri(c))
                       ELSE st0
                removed == RemoveNode(st1.ns, threads[t].node)
            IN /\ nodes' = removed.ns
               /\ SetConvs([Convs EXCEPT ![c].log = st1.log])
               /\ stdout' = threads[t].original_stdout
               /\ threads' = Goes(t, "689", "")
    /\ UNCHANGED <<current, converter, namespace, frames, execs, stylevars>>

\* Line 689: get_current_node.current.pop().
ThreadPopNode ==
    /\ \E t \in Threads :
         /\ threads[t].pc = "689"
         /\ IF current = <<>>
            THEN /\ threads' = Goes(t, "", "IndexError")
                 /\ current' = current
            ELSE /\ current' = SubSeq(current, 1, Len(current) - 1)
                 /\ threads' = Goes(t, "690", "")
    /\ UNCHANGED <<nodes, doc, log, inner, converter, namespace, stdout, frames, execs,
                   stylevars>>

\* Line 690: include.converter.pop().
ThreadPopConverter ==
    /\ \E t \in Threads :
         /\ threads[t].pc = "690"
         /\ IF converter = <<>>
            THEN /\ threads' = Goes(t, "", "IndexError")
                 /\ converter' = converter
            ELSE /\ converter' = SubSeq(converter, 1, Len(converter) - 1)
                 /\ threads' = Goes(t, "691", "")
    /\ UNCHANGED <<nodes, doc, log, inner, current, namespace, stdout, frames, execs,
                   stylevars>>

\* Lines 691-700: the names are bound to the tops of the stacks, or set to
\* None; get_current_node() raises if the current-node stack is empty while
\* include.converter is not.
ThreadRebind ==
    /\ \E t \in Threads :
         /\ threads[t].pc = "691"
         /\ IF converter # <<>> /\ current = <<>>
            THEN /\ threads' = Goes(t, "", "IndexError")
                 /\ namespace' = [BoundFor(converter[Len(converter)], None)
                                     EXCEPT !["__NODE__"] = namespace["__NODE__"]]
            ELSE /\ namespace' = Rebind(current, converter, Convs)
                 /\ threads' = Goes(t, "done", "")
    /\ UNCHANGED <<nodes, doc, log, inner, current, converter, stdout, frames, execs,
                   stylevars>>

NextConc ==
    \/ ThreadPushNode
    \/ ThreadPushConverter
    \/ ThreadBind
    \/ ThreadEcho
    \/ ThreadFinish
    \/ ThreadPopNode
    \/ ThreadPopConverter
    \/ ThreadRebind

SpecConc == InitConc /\ [][NextConc]_vars

\* The threads other than t.
Others(t) == Threads \ {t}

\* C27: the stacks and the namespace are shared by the threads.  What
\* get_current_node() returns to the code of a thread is the node pushed
\* last by any thread and not popped yet, and echo puts its node under the
\* parent of that node; the names are bound to the PI of a thread, its echo
\* goes to its own document and its pops leave the stacks and the names as it
\* found them as long as no other thread has entered exec_python.
C27_Shared ==
    \A t \in Threads :
        /\ \A i \in 1..Len(threads[t].echoes) :
              LET r == threads[t].echoes[i] IN
              /\ r.got = r.stack[Len(r.stack)]
              /\ r.parent = nodes[r.got].parent \/ nodes[r.got].parent = None
              /\ nodes[r.text].parent = r.parent
        /\ (\A u \in Others(t) : threads[u].pc = "idle") =>
              /\ threads[t].err = "" /\ ~threads[t].raised
              /\ \A i \in 1..Len(threads[t].echoes) :
                    threads[t].echoes[i].got = threads[t].node
              /\ threads[t].bound \in {None, threads[t].node}
              /\ threads[t].pc = "exec" =>
                    namespace = BoundFor(threads[t].conv, threads[t].node)
              /\ threads[t].pc = "done" =>
                    current = <<>> /\ converter = <<>> /\ namespace = Cleared

\* C27 witness: the code of a thread was run with __NODE__ bound to the PI of
\* the other thread, its echo got that PI from get_current_node() and put its
\* text in the document of the other thread; its pops took the entries of the
\* other thread and left its own, which the other thread now finds on top.
C27_Witness ==
    \E t \in Threads : \E u \in Others(t) :
        /\ threads[t].pc = "done"
        /\ threads[t].bound = threads[u].node
        /\ Len(threads[t].echoes) = 1
        /\ threads[t].echoes[1].got = threads[u].node
        /\ nodes[threads[t].echoes[1].text].parent = Convs[threads[u].conv].doc[1]
        /\ nodes[threads[t].echoes[1].text].parent # Convs[threads[t].conv].doc[1]
        /\ threads[u].pc = "exec"
        /\ current = <<threads[t].node>>
        /\ converter = <<threads[t].conv>>
        /\ GetCurrentNode # threads[u].node

\* C28: every annotated node of the compiled copy carries the directive list
\* and the info bag the matcher computes for the input node it is the clone
\* of, and a template clone for each of those directives and no other:
\* compiling a removed node leaves the annotations of every other node alone.
C28_OwnAnnotations ==
    \A n \in 1..Len(nodes) :
        (nodes[n].ann /\ nodes[n].src # None) =>
            LET m == GetNodeDirectives(inst, nc, nodes[nodes[n].src]) IN
            /\ nodes[n].directives = m.directives
            /\ nodes[n].info = m.info

\* C29: between convert() calls, after calls that returned and calls that a
\* hook of a directive left by an exception of its own, the doc stack and the
\* log stack of the converter have the same length: document and lexor_log
\* are the output and the log of the same call.
C29_StacksAligned ==
    (pc = "idle" /\ (status = "raised" => error[2] = "ValueError")) =>
        Len(doc) = Len(log)

\* C30: after any register() calls, with or without override, the map by
\* class name and the map by directive name hold the same instances and
\* each instance is stored under its own class name and under its own
\* directive name: no instance that was overridden is left in either map.
C30_MapsAgree ==
    ~reload =>
        /\ { node_converter[c] : c \in DOMAIN node_converter } = { nc[d] : d \in DOMAIN nc }
        /\ \A d \in DOMAIN nc : inst[nc[d]].directive = d
        /\ \A c \in DOMAIN node_converter : inst[node_converter[c]].cls = c

\* The nodes a walk made a node step on, and how often it did on node n.
Visited(phase) == { visits[i][2] : i \in { j \in 1..Len(visits) : visits[j][1] = phase } }

VisitCount(phase, n) ==
    Cardinality({ i \in 1..Len(visits) : visits[i] = <<phase, n>> })

\* The walk of a phase goes down from the input node a: the compile walk from
\* a node that is not removed, the final walk from a node that is copied, and
\* both only if the children are copied.
Descends(phase, a) ==
    /\ nodes[a].child # <<>>
    /\ CopyChildren(nodes, inst, nc, a)
    /\ a = indoc \/ (IF phase = "compile" THEN ~Removed(a) ELSE Copy(nodes, inst, nc, a))

\* The input node n is not below a node the walk of a phase skips.
RECURSIVE NotBelowSkipped(_, _)
NotBelowSkipped(phase, n) ==
    \/ n = indoc
    \/ /\ Descends(phase, nodes[n].parent)
       /\ NotBelowSkipped(phase, nodes[n].parent)

\* The nodes of the input the walk of a phase has to visit.
ToVisit(phase) ==
    { n \in Descendants(nodes, indoc) \ {indoc} : NotBelowSkipped(phase, n) }

\* The compile walk, the link walk, the final walk of the call are over.
CompileOver == pc \in {"compiled", "link", "linked", "final", "finish"} \/ Returned

LinkOver == pc \in {"linked", "final", "finish"} \/ Returned

FinalOver == pc = "finish" \/ Returned

\* The walks of a call that no exception has left made a node step once on
\* every node they had to visit and on no other node.
VisitsExact ==
    /\ \A i \in 1..Len(visits) : VisitCount(visits[i][1], visits[i][2]) = 1
    /\ CompileOver => Visited("compile") = ToVisit("compile")
    /\ LinkOver => Visited("link") = Descendants(nodes, doccopy) \ {doccopy}
    /\ FinalOver => Visited("final") = ToVisit("final")

\* A walk of the call was left by an exception of the walk itself, not of a hook.
WalkFailed(phase) ==
    pc = "idle" /\ status = "raised" /\ error = <<phase, "AttributeError">>

\* C31: whatever the remove, copy, copy_children and transclude flags of the
\* style, each walk comes to its end having visited every node that is not
\* below a skipped node exactly once, the link walk every node of the linked
\* copy: no walk stops with nodes left to visit.
C31_WalksVisitOnce ==
    /\ VisitsExact
    /\ \A phase \in {"compile", "final"} :
          WalkFailed(phase) => Visited(phase) = ToVisit(phase)

\* C32: an exec_python call that the exception of parser.parse(text) has left
\* has put the current-node stack and the converter stack back as they were
\* when it was entered and sys.stdout back to what it was, so that the next
\* exec_python call starts from the stacks the failed one started from.
C32_RestoredOnFailure ==
    \A i \in 1..Len(execs) :
        (~execs[i].returned /\ execs[i].at = 682) =>
            /\ execs[i].exit = execs[i].entry
            /\ execs[i].stdout[2] = execs[i].stdout[1]

====
